---- MODULE Spec2Model ----
(***************************************************************************)
(* Model of dev-workspaces: the config tree (src/src/config.rs), the       *)
(* doctor / restore engine (src/src/lib.rs), and the clone entry point,    *)
(* credential negotiation and progress reporter (src/src/git.rs).          *)
(*                                                                         *)
(* Paths are sequences of components; an absolute path starts with the     *)
(* component "/".  A HashMap is a function from its keys; its iteration    *)
(* order is the order of hashOrder restricted to its keys.                 *)
(***************************************************************************)
EXTENDS Naturals, Sequences, FiniteSets, TLC

VARIABLES
    yaml,       \* the declared tree, as written in the config source
    config,     \* the Config built by Config::from_str
    hashOrder,  \* iteration order of the HashMaps of this process
    listed,     \* CLI list command: [kind, paths] last printed
    git,        \* the last Git value built by Git::new
    found,      \* the last lookup_workspace / lookup_project call and its result
    creds,      \* the running (or last) credential negotiation of Git::with_creds
    fs,         \* the filesystem: kind of entry at each path
    repos,      \* paths holding a completed clone
    net,        \* whether the git transport can reach the remote
    pc,         \* position of the running restore
    opt,        \* the RestoreOption of the running (or last) restore
    result,     \* what restore returned
    diagnosis,  \* the DoctorDiagnosis of the outermost restore (or of doctor)
    wsFrame,    \* the running restore(Workspace) call: its path, flag, diagnosis
    wsQueue,    \* AllWorkspaces: the workspaces still to iterate
    projQueue,  \* the project paths still to restore
    log,        \* what this restore did, in order
    runs,       \* restores started so far
    start,      \* filesystem and repos when this restore started
    prev,       \* the previous restore: its option and result
    quiet,      \* no event of the environment since the previous restore started
    made,       \* paths created by restore
    envSteps,   \* events of the environment so far
    now,        \* the monotonic clock (Instant::now), in milliseconds
    received,   \* bytes the transport has received (stats.received_bytes)
    progress,   \* the Progress reporter of the running clone
    counter,    \* the MetricsCounter<10> of the running attempt
    last_update,\* the attempt's time of the last scrape into the counter
    ticked,     \* the last sample pushed and what the reporter did with it
    shown,      \* the times at which a line was written, in order
    added,      \* the records given to the counter, the initial one first
    ticks,      \* transfer_progress callbacks so far
    bar         \* the last sample formatted and the bar Format::progress gave

cfgVars == <<yaml, config, hashOrder, listed, git, found, creds>>
fsVars == <<fs, repos, net>>
runVars == <<pc, opt, result, diagnosis, wsFrame, wsQueue, projQueue, log>>
histVars == <<runs, start, prev, quiet, made, envSteps>>
progVars == <<now, received, progress, counter, last_update, ticked, shown,
              added, ticks, bar>>
vars == <<cfgVars, fsVars, runVars, histVars, progVars>>

\* Option::None of an enum or of a key; Nil is Option::None (or Err) of a struct
None == "None"
Nil == [none |-> TRUE]

\* No clone is running: no reporter, no counter, nothing pushed
NoProgress ==
    /\ now = 0
    /\ received = 0
    /\ progress = Nil
    /\ counter = Nil
    /\ last_update = 0
    /\ ticked = Nil
    /\ shown = <<>>
    /\ added = <<>>
    /\ ticks = 0
    /\ bar = Nil

\* ------------------------------------------------------------------ paths

WsNames == {"w0", "w1"}
ProjNames == {"p0", "p1"}

\* config.root after absolute_path
Root == <<"/", "r">>

is_absolute(p) == p # <<>> /\ p[1] = "/"

\* PathBuf::join: an absolute argument replaces the receiver
join(a, b) == IF is_absolute(b) THEN b ELSE a \o b

\* Path::starts_with: whole components only
starts_with(p, base) == Len(base) <= Len(p) /\ SubSeq(p, 1, Len(base)) = base

\* Path::strip_prefix(base).unwrap(), used only after starts_with
strip_prefix(p, base) == SubSeq(p, Len(base) + 1, Len(p))

\* Path::parent is Some: not for the empty path, not for "/"
has_parent(p) == p # <<>> /\ p # <<"/">>

\* Path::parent().unwrap()
parent(p) == SubSeq(p, 1, Len(p) - 1)

\* ------------------------------------------------------------ git settings

GitHosts == {"GitHub", "GitLab"}
GitCloneProtocols == {"HTTPS", "SSH"}
GitCloneStrategies == {"Branch", "Worktree"}

\* struct GitConfig: every field an Option
GitConfigs ==
    [clone_strategy : GitCloneStrategies \cup {None},
     protocol : GitCloneProtocols \cup {None},
     host : GitHosts \cup {None}]

NoGitConfig == [clone_strategy |-> None, protocol |-> None, host |-> None]

\* Option::or
Or(a, b) == IF a # None THEN a ELSE b

\* Option::unwrap_or
unwrap_or(a, d) == IF a # None THEN a ELSE d

\* ------------------------------------------------------- the declared tree

\* A declared tree: ws maps the key chain of every declared workspace to its
\* node, projs maps the key chain of every declared project to its node.
\* struct ProjectGitSettings: repo plus the flattened GitConfig
ProjectGitSettingsSet == [repo : {"o/n"}, core_settings : GitConfigs]

\* Bounded inputs: the shapes of declared trees (flat, two workspaces, nested)
Shapes ==
    { [ws |-> {<<"w0">>}, projs |-> {<<"w0", "p0">>}],
      [ws |-> {<<"w0">>, <<"w1">>},
       projs |-> {<<"w0", "p0">>, <<"w0", "p1">>, <<"w1", "p0">>}],
      [ws |-> {<<"w0">>, <<"w0", "w1">>},
       projs |-> {<<"w0", "p0">>, <<"w0", "w1", "p1">>}] }

\* The declared tree of shape sh: rootGit at the root, wsGit on w0, projGit on
\* w0/p0; w0/p1 (when declared) is a git project that sets no field itself.
MkYaml(sh, rootGit, wsGit, projGit) ==
    [root |-> Root,
     git |-> rootGit,
     ws |-> [c \in sh.ws |-> [git |-> IF c = <<"w0">> THEN wsGit ELSE Nil]],
     projs |-> [c \in sh.projs |->
                  [git |-> IF c = <<"w0", "p0">> THEN projGit
                           ELSE IF c = <<"w0", "p1">>
                                THEN [repo |-> "o/n", core_settings |-> NoGitConfig]
                                ELSE Nil]]]

TwoWorkspaces ==
    [ws |-> {<<"w0">>, <<"w1">>},
     projs |-> {<<"w0", "p0">>, <<"w0", "p1">>, <<"w1", "p0">>}]

\* The git settings tried at the config root: each field unset or set to the
\* value that is not the default
RootGitConfigs ==
    [clone_strategy : {None, "Worktree"}, protocol : {None, "SSH"},
     host : {None, "GitLab"}]

\* Every combination of git settings at the workspace and the project, under
\* each root setting, on one shape
GitYamls ==
    { MkYaml(TwoWorkspaces, rg, wg, pg) :
        rg \in RootGitConfigs, wg \in GitConfigs \cup {Nil},
        pg \in ProjectGitSettingsSet \cup {Nil} }

\* Every shape, without git settings
ShapeYamls == { MkYaml(sh, NoGitConfig, Nil, Nil) : sh \in Shapes }

HashOrders ==
    { <<"w0", "w1", "p0", "p1">>, <<"w1", "w0", "p0", "p1">>,
      <<"w0", "w1", "p1", "p0">>, <<"w1", "w0", "p1", "p0">> }

\* HashMap::iter: the keys of a map in this process's iteration order
Iter(keys) == LET in_map(n) == n \in keys IN SelectSeq(hashOrder, in_map)

\* ---------------------------------------------------------------- config.rs

\* Mutant: the ancestor's value replaces the value set on the project
Project_overlay_ancestor_first(p, g) ==
    IF p.git = Nil THEN p
    ELSE [git |->
            [repo |-> p.git.repo,
             core_settings |->
               [host |-> Or(g.host, p.git.core_settings.host),
                protocol |-> Or(g.protocol, p.git.core_settings.protocol),
                clone_strategy |->
                    Or(g.clone_strategy, p.git.core_settings.clone_strategy)]]]

\* Project::overlay_git_config
Project_overlay_git_config(p, g) ==
    IF p.git = Nil THEN p
    ELSE [git |->
            [repo |-> p.git.repo,
             core_settings |->
               [host |-> Or(p.git.core_settings.host, g.host),
                protocol |-> Or(p.git.core_settings.protocol, g.protocol),
                clone_strategy |->
                    Or(p.git.core_settings.clone_strategy, g.clone_strategy)]]]

\* Workspace::overlay_git_config
Workspace_overlay_git_config(w, g) ==
    LET ws_git0 == IF w.git # Nil THEN w.git ELSE g
        ws_git == [host |-> Or(ws_git0.host, g.host),
                   protocol |-> Or(ws_git0.protocol, g.protocol),
                   clone_strategy |-> Or(ws_git0.clone_strategy, g.clone_strategy)]
    IN [projects |-> [n \in DOMAIN w.projects |->
                        Project_overlay_git_config(w.projects[n], ws_git)],
        git |-> ws_git]

\* serde's derived Deserialize for Config / Workspace / Project: a Workspace
\* has the fields projects and git only, any other key of the source is dropped
Deserialize(y) ==
    LET top == {c \in DOMAIN y.ws : Len(c) = 1}
        projects_of(n) == {q \in DOMAIN y.projs : Len(q) = 2 /\ q[1] = n}
    IN [root |-> y.root,
        git |-> y.git,
        workspaces |->
          [n \in {c[1] : c \in top} |->
             [projects |-> [m \in {q[2] : q \in projects_of(n)} |-> y.projs[<<n, m>>]],
              git |-> y.ws[<<n>>].git]]]

\* Config::from_str
from_str(y) ==
    LET c == Deserialize(y)
    IN [c EXCEPT !.workspaces =
          [n \in DOMAIN c.workspaces |->
             Workspace_overlay_git_config(c.workspaces[n], c.git)]]

\* Workspace::collect_project_paths
Workspace_collect_project_paths(w, parent_path) ==
    LET names == Iter(DOMAIN w.projects)
    IN [i \in 1..Len(names) |-> join(parent_path, <<names[i]>>)]

\* Config::collect_workspace_paths
collect_workspace_paths(c) ==
    LET names == Iter(DOMAIN c.workspaces)
    IN [i \in 1..Len(names) |-> join(c.root, <<names[i]>>)]

RECURSIVE concat(_)
\* [Vec<T>]::concat
concat(vs) == IF vs = <<>> THEN <<>> ELSE Head(vs) \o concat(Tail(vs))

\* Config::collect_project_paths
collect_project_paths(c) ==
    LET names == Iter(DOMAIN c.workspaces)
    IN concat([i \in 1..Len(names) |->
                 Workspace_collect_project_paths(c.workspaces[names[i]],
                                                 join(c.root, <<names[i]>>))])

\* Mutant: the root is not stripped from the path
lookup_workspace_no_strip(c, ws_path) ==
    IF Len(ws_path) = 1 /\ ws_path[1] \in DOMAIN c.workspaces THEN ws_path[1]
    ELSE None

\* Mutant: the key is the last component of the path, wherever the path lies
lookup_workspace_file_name(c, ws_path) ==
    IF ws_path # <<>> /\ ws_path[Len(ws_path)] \in DOMAIN c.workspaces
    THEN ws_path[Len(ws_path)] ELSE None

\* Config::lookup_workspace: the key of the workspace, or None (Err)
lookup_workspace(c, ws_path) ==
    LET rel == IF starts_with(ws_path, c.root)
               THEN strip_prefix(ws_path, c.root) ELSE ws_path
    IN IF Len(rel) = 1 /\ rel[1] \in DOMAIN c.workspaces THEN rel[1] ELSE None

\* Config::lookup_project: the keys [ws, proj] of the project, or Nil (Err)
lookup_project(c, proj_path) ==
    IF ~has_parent(proj_path) THEN Nil
    ELSE LET ws_path == parent(proj_path)
             proj_name == strip_prefix(proj_path, ws_path)
             w == lookup_workspace(c, ws_path)
         IN IF w = None THEN Nil
            ELSE IF Len(proj_name) = 1 /\ proj_name[1] \in DOMAIN c.workspaces[w].projects
                 THEN [ws |-> w, proj |-> proj_name[1]]
                 ELSE Nil

\* ------------------------------------------------------------------- git.rs

\* Git::new
Git_new(path, proj_git) ==
    [path |-> path,
     repo |-> proj_git.repo,
     host |-> unwrap_or(proj_git.core_settings.host, "GitHub"),
     strategy |-> unwrap_or(proj_git.core_settings.clone_strategy, "Branch"),
     protocol |-> unwrap_or(proj_git.core_settings.protocol, "HTTPS")]

\* GitCloneStrategy::is_worktree
is_worktree(strategy) == strategy = "Worktree"

\* impl ToString for GitHost
to_string(host) == IF host = "GitHub" THEN "github.com" ELSE "gitlab.com"

\* Mutant: the username is written into the HTTPS URL too
to_url_user_everywhere(host, proto, repo, user) ==
    IF proto = "HTTPS"
    THEN IF user = None THEN <<"https://", to_string(host), "/", repo, ".git">>
         ELSE <<"https://", user, "@", to_string(host), "/", repo, ".git">>
    ELSE <<unwrap_or(user, "git"), "@", to_string(host), ":", repo, ".git">>

\* GitHost::to_url: the pieces format! writes, in order
to_url(host, proto, repo, user) ==
    IF proto = "HTTPS" THEN <<"https://", to_string(host), "/", repo, ".git">>
    ELSE <<unwrap_or(user, "git"), "@", to_string(host), ":", repo, ".git">>

\* git2::CredentialType, the kinds a transport declares it accepts
CredentialTypes == {"USERNAME", "SSH_KEY", "USER_PASS_PLAINTEXT", "DEFAULT"}

\* What a credential callback returns: Ok(the credential v) or Err(the message
\* v), with the credential source src it consulted
Answer(ok, v, src) == [ok |-> ok, v |-> v, src |-> src]

\* Mutant: the SSH agent key is offered whenever SSH keys are accepted
first_callback_key_again(c, allowed, agent, helper) ==
    IF "USERNAME" \in allowed
    THEN [c EXCEPT !.any_attempts = TRUE, !.ssh_username_requested = TRUE,
                   !.ret = Answer(FALSE, "gonna try usernames later", "none")]
    ELSE IF "SSH_KEY" \in allowed
    THEN [c EXCEPT !.any_attempts = TRUE, !.tried_sshkey = TRUE,
                   !.ret = IF agent THEN Answer(TRUE, "SshKey", "agent")
                           ELSE Answer(FALSE, "ssh agent failed", "agent")]
    ELSE IF "USER_PASS_PLAINTEXT" \in allowed /\ ~c.cred_helper_bad
    THEN [c EXCEPT !.any_attempts = TRUE, !.cred_helper_bad = ~helper,
                   !.ret = IF helper THEN Answer(TRUE, "UserPass", "helper")
                           ELSE Answer(FALSE, "credential helper failed", "helper")]
    ELSE IF "DEFAULT" \in allowed
    THEN [c EXCEPT !.any_attempts = TRUE, !.ret = Answer(TRUE, "Default", "default")]
    ELSE [c EXCEPT !.any_attempts = TRUE,
                   !.ret = Answer(FALSE, "no authentication methods succeeded", "none")]

\* Mutant: a request for a bare username is refused without being recorded
first_callback_no_record(c, allowed, agent, helper) ==
    IF "USERNAME" \in allowed
    THEN [c EXCEPT !.any_attempts = TRUE,
                   !.ret = Answer(FALSE, "gonna try usernames later", "none")]
    ELSE IF "SSH_KEY" \in allowed /\ ~c.tried_sshkey
    THEN [c EXCEPT !.any_attempts = TRUE, !.tried_sshkey = TRUE,
                   !.ret = IF agent THEN Answer(TRUE, "SshKey", "agent")
                           ELSE Answer(FALSE, "ssh agent failed", "agent")]
    ELSE IF "USER_PASS_PLAINTEXT" \in allowed /\ ~c.cred_helper_bad
    THEN [c EXCEPT !.any_attempts = TRUE, !.cred_helper_bad = ~helper,
                   !.ret = IF helper THEN Answer(TRUE, "UserPass", "helper")
                           ELSE Answer(FALSE, "credential helper failed", "helper")]
    ELSE IF "DEFAULT" \in allowed
    THEN [c EXCEPT !.any_attempts = TRUE, !.ret = Answer(TRUE, "Default", "default")]
    ELSE [c EXCEPT !.any_attempts = TRUE,
                   !.ret = Answer(FALSE, "no authentication methods succeeded", "none")]

\* Git::with_creds, the credential callback of the first attempt, on the
\* negotiation state c; agent and helper tell whether Cred::ssh_key_from_agent
\* and Cred::credential_helper succeed when called
first_callback(c, allowed, agent, helper) ==
    IF "USERNAME" \in allowed
    THEN [c EXCEPT !.any_attempts = TRUE, !.ssh_username_requested = TRUE,
                   !.ret = Answer(FALSE, "gonna try usernames later", "none")]
    ELSE IF "SSH_KEY" \in allowed /\ ~c.tried_sshkey
    THEN [c EXCEPT !.any_attempts = TRUE, !.tried_sshkey = TRUE,
                   !.ret = IF agent THEN Answer(TRUE, "SshKey", "agent")
                           ELSE Answer(FALSE, "ssh agent failed", "agent")]
    ELSE IF "USER_PASS_PLAINTEXT" \in allowed /\ ~c.cred_helper_bad
    THEN [c EXCEPT !.any_attempts = TRUE, !.cred_helper_bad = ~helper,
                   !.ret = IF helper THEN Answer(TRUE, "UserPass", "helper")
                           ELSE Answer(FALSE, "credential helper failed", "helper")]
    ELSE IF "DEFAULT" \in allowed
    THEN [c EXCEPT !.any_attempts = TRUE, !.ret = Answer(TRUE, "Default", "default")]
    ELSE [c EXCEPT !.any_attempts = TRUE,
                   !.ret = Answer(FALSE, "no authentication methods succeeded", "none")]

\* Git::with_creds, the credential callback of an attempt of the retry loop
retry_callback(c, allowed, agent) ==
    IF "USERNAME" \in allowed
    THEN [c EXCEPT !.ret = Answer(TRUE, "Username", "username")]
    ELSE IF "SSH_KEY" \in allowed \/ "USER_PASS_PLAINTEXT" \in allowed
    THEN IF c.attempts + 1 = 2
         THEN [c EXCEPT !.attempts = c.attempts + 1,
                        !.ret = IF agent THEN Answer(TRUE, "SshKey", "agent")
                                ELSE Answer(FALSE, "ssh agent failed", "agent")]
         ELSE [c EXCEPT !.attempts = c.attempts + 1,
                        !.ret = Answer(FALSE, "no authentication available", "none")]
    ELSE [c EXCEPT !.ret = Answer(FALSE, "no authentication available", "none")]

\* Mutant: one more candidate is tried before the environment's user
usernames_four(env_user) ==
    IF env_user = None THEN <<"git", "Will Czifro", "root">>
    ELSE <<"git", "Will Czifro", "root", env_user>>

\* Git::with_creds: the candidate usernames, in the order they are popped
usernames(env_user) ==
    IF env_user = None THEN <<"git", "Will Czifro">>
    ELSE <<"git", "Will Czifro", env_user>>

\* ------------------------------------------------- the config specification

InitConfig ==
    /\ \/ yaml \in GitYamls /\ hashOrder = <<"w0", "w1", "p0", "p1">>
       \/ yaml \in ShapeYamls /\ hashOrder \in HashOrders
    /\ config = from_str(yaml)
    /\ listed = [kind |-> "none", paths |-> <<>>]
    /\ git = Nil
    /\ found = Nil
    /\ creds = Nil
    /\ fs = [p \in {} |-> "absent"]
    /\ repos = {}
    /\ net = "up"
    /\ pc = "idle"
    /\ opt = Nil
    /\ result = "none"
    /\ diagnosis = Nil
    /\ wsFrame = Nil
    /\ wsQueue = <<>>
    /\ projQueue = <<>>
    /\ log = <<>>
    /\ runs = 0
    /\ start = Nil
    /\ prev = Nil
    /\ quiet = TRUE
    /\ made = {}
    /\ envSteps = 0
    /\ NoProgress

\* workspaces list workspaces (bin/workspaces.rs)
ListWorkspaces ==
    /\ listed' = [kind |-> "workspaces", paths |-> collect_workspace_paths(config)]
    /\ UNCHANGED <<yaml, config, hashOrder, git, found, creds, fsVars, runVars,
                   histVars,
                   progVars>>

\* workspaces list projects (bin/workspaces.rs)
ListProjects ==
    /\ listed' = [kind |-> "projects", paths |-> collect_project_paths(config)]
    /\ UNCHANGED <<yaml, config, hashOrder, git, found, creds, fsVars, runVars,
                   histVars,
                   progVars>>

\* restore_project on a git project: lookup_project, then Git::new
NewGit ==
    /\ \E i \in 1..Len(collect_project_paths(config)) :
         LET path == collect_project_paths(config)[i]
             k == lookup_project(config, path)
         IN /\ k # Nil
            /\ config.workspaces[k.ws].projects[k.proj].git # Nil
            /\ git' = Git_new(path, config.workspaces[k.ws].projects[k.proj].git)
    /\ UNCHANGED <<yaml, config, hashOrder, listed, found, creds, fsVars, runVars,
                   histVars,
                   progVars>>

NextConfig == ListWorkspaces \/ ListProjects \/ NewGit

SpecConfig == InitConfig /\ [][NextConfig]_vars

\* ------------------------------------------------- the lookup specification

\* The paths looked up: declared nodes by absolute and by relative path, nested
\* and undeclared nodes, paths outside the root, the root, "/" and the empty path
LookupPaths ==
    {Root \o <<"w0">>, Root \o <<"w1">>, <<"w0">>, <<"w1">>, Root \o <<"wx">>,
     Root \o <<"w0", "w1">>, <<"/", "x", "w0">>, <<"/", "w0">>, Root, <<"/">>,
     <<>>, Root \o <<"w0", "p0">>, Root \o <<"w0", "p1">>, Root \o <<"w1", "p0">>,
     <<"w0", "p0">>, <<"p0">>, Root \o <<"w0", "px">>, Root \o <<"w0", "w1", "p1">>,
     <<"/", "x", "w0", "p0">>, <<"/", "w0", "p0">>}

InitLookup ==
    /\ yaml \in ShapeYamls
    /\ hashOrder \in HashOrders
    /\ config = from_str(yaml)
    /\ listed = [kind |-> "none", paths |-> <<>>]
    /\ git = Nil
    /\ found = Nil
    /\ creds = Nil
    /\ fs = [p \in {} |-> "absent"]
    /\ repos = {}
    /\ net = "up"
    /\ pc = "idle"
    /\ opt = Nil
    /\ result = "none"
    /\ diagnosis = Nil
    /\ wsFrame = Nil
    /\ wsQueue = <<>>
    /\ projQueue = <<>>
    /\ log = <<>>
    /\ runs = 0
    /\ start = Nil
    /\ prev = Nil
    /\ quiet = TRUE
    /\ made = {}
    /\ envSteps = 0
    /\ NoProgress

\* config.lookup_workspace(&ws_path), as restore calls it on the path it is given
LookupWorkspace ==
    /\ \E path \in LookupPaths :
         LET w == lookup_workspace(config, path)
         IN found' = [kind |-> "workspace", path |-> path, ok |-> w # None,
                      ws |-> w, proj |-> None]
    /\ UNCHANGED <<yaml, config, hashOrder, listed, git, creds, fsVars, runVars,
                   histVars,
                   progVars>>

\* config.lookup_project(proj_path), as restore_project calls it
LookupProject ==
    /\ \E path \in LookupPaths :
         LET k == lookup_project(config, path)
         IN found' = [kind |-> "project", path |-> path, ok |-> k # Nil,
                      ws |-> IF k = Nil THEN None ELSE k.ws,
                      proj |-> IF k = Nil THEN None ELSE k.proj]
    /\ UNCHANGED <<yaml, config, hashOrder, listed, git, creds, fsVars, runVars,
                   histVars,
                   progVars>>

NextLookup == LookupWorkspace \/ LookupProject

SpecLookup == InitLookup /\ [][NextLookup]_vars

\* --------------------------------------- the credential negotiation (git.rs)

\* Credential callbacks a transport makes in one attempt, at most
MaxCallbacks == 3

\* The sets of kinds a transport declares at a callback: each kind alone, the
\* pairs and the triple that put two steps of the priority in competition, none
AllowedSets ==
    { {}, {"USERNAME"}, {"SSH_KEY"}, {"USER_PASS_PLAINTEXT"}, {"DEFAULT"},
      {"USERNAME", "SSH_KEY"}, {"SSH_KEY", "USER_PASS_PLAINTEXT"},
      {"USER_PASS_PLAINTEXT", "DEFAULT"},
      {"SSH_KEY", "USER_PASS_PLAINTEXT", "DEFAULT"} }

\* std::env::var("USER").or_else(|_| std::env::var("USERNAME"))
EnvUsers == {None, "me"}

\* What an attempt f(url, callback) may return, given the last answer of the
\* callback: Ok when no credential was asked for or the last one was
\* accepted, the callback's error, the transport's refusal of the credential
\* offered, or an error of the transport itself at any point
AttemptResults(c) ==
    {"network error"}
    \cup (IF c.calls = 0 \/ c.ret.ok THEN {"Ok"} ELSE {})
    \cup (IF c.calls > 0 /\ c.ret.ok THEN {"authentication rejected"} ELSE {})
    \cup (IF c.calls > 0 /\ ~c.ret.ok THEN {c.ret.v} ELSE {})

\* The transport honours what the first callback asserts of it:
\* debug_assert!(!ssh_username_requested) where the agent key is offered
FirstCallbackAsserts(c, allowed) ==
    ~("USERNAME" \notin allowed /\ "SSH_KEY" \in allowed /\ ~c.tried_sshkey
      /\ c.ssh_username_requested)

\* Git::with_creds up to the first attempt: the URL without a username, the
\* flags cleared
BeginNegotiation(g) ==
    [pc |-> "first",
     url |-> to_url(g.host, g.protocol, g.repo, None),
     ssh_username_requested |-> FALSE, cred_helper_bad |-> FALSE,
     any_attempts |-> FALSE, tried_sshkey |-> FALSE,
     attempts |-> 0, candidates |-> <<>>, u |-> None, res |-> "none",
     calls |-> 0, allowed |-> {}, ret |-> Answer(FALSE, "none", "none"),
     first_res |-> "none", outcomes |-> <<>>, n_attempts |-> 1,
     asked_username |-> FALSE, only_ssh_key |-> TRUE, key_offers |-> 0,
     helper_failed |-> FALSE, helper_again |-> FALSE]

\* Git::with_creds, retry loop: attempts.pop() and the attempt of the next
\* candidate started, or the loop left when no candidate remains
NextCandidate(c, g) ==
    IF c.candidates = <<>> THEN [c EXCEPT !.pc = "done"]
    ELSE [c EXCEPT !.pc = "retry", !.u = Head(c.candidates),
                   !.candidates = Tail(c.candidates), !.attempts = 0,
                   !.url = to_url(g.host, g.protocol, g.repo, Head(c.candidates)),
                   !.calls = 0, !.ret = Answer(FALSE, "none", "none"),
                   !.n_attempts = c.n_attempts + 1]

InitCreds ==
    /\ yaml = MkYaml(TwoWorkspaces, NoGitConfig, Nil, Nil)
    /\ hashOrder = <<"w0", "w1", "p0", "p1">>
    /\ config = from_str(yaml)
    /\ listed = [kind |-> "none", paths |-> <<>>]
    /\ git \in {Git_new(Root \o <<"w0", "p1">>,
                         [repo |-> "o/n",
                          core_settings |-> [clone_strategy |-> None,
                                             protocol |-> pr, host |-> h]]) :
                   pr \in GitCloneProtocols, h \in GitHosts}
    /\ found = Nil
    /\ creds = Nil
    /\ fs = [p \in {} |-> "absent"]
    /\ repos = {}
    /\ net = "up"
    /\ pc = "idle"
    /\ opt = Nil
    /\ result = "none"
    /\ diagnosis = Nil
    /\ wsFrame = Nil
    /\ wsQueue = <<>>
    /\ projQueue = <<>>
    /\ log = <<>>
    /\ runs = 0
    /\ start = Nil
    /\ prev = Nil
    /\ quiet = TRUE
    /\ made = {}
    /\ envSteps = 0
    /\ NoProgress

\* Git::clone calls with_creds: the first attempt f(orig_url, callback) starts
WithCreds ==
    /\ creds = Nil
    /\ creds' = BeginNegotiation(git)
    /\ UNCHANGED <<yaml, config, hashOrder, listed, git, found, fsVars, runVars,
                   histVars,
                   progVars>>

\* The transport calls the credential callback of the first attempt
FirstCallback ==
    /\ creds # Nil /\ creds.pc = "first" /\ creds.calls < MaxCallbacks
    /\ \E allowed \in AllowedSets, agent \in BOOLEAN, helper \in BOOLEAN :
         /\ FirstCallbackAsserts(creds, allowed)
         /\ LET c == first_callback(creds, allowed, agent, helper)
            IN creds' =
                 [c EXCEPT !.calls = creds.calls + 1, !.allowed = allowed,
                           !.asked_username = @ \/ "USERNAME" \in allowed,
                           !.only_ssh_key = @ /\ allowed = {"SSH_KEY"},
                           !.key_offers = IF c.ret.src = "agent" THEN @ + 1 ELSE @,
                           !.helper_again =
                               @ \/ (creds.helper_failed /\ c.ret.src = "helper"),
                           !.helper_failed =
                               @ \/ (c.ret.src = "helper" /\ ~c.ret.ok)]
    /\ UNCHANGED <<yaml, config, hashOrder, listed, git, found, fsVars, runVars,
                   histVars,
                   progVars>>

\* The first attempt returns: res is kept, and the retry loop is entered when
\* a username was requested
FirstReturn ==
    /\ creds # Nil /\ creds.pc = "first"
    /\ \E r \in AttemptResults(creds), env_user \in EnvUsers :
         LET c == [creds EXCEPT !.res = r, !.first_res = r]
         IN creds' = IF c.ssh_username_requested
                     THEN NextCandidate([c EXCEPT !.candidates = usernames(env_user)],
                                        git)
                     ELSE [c EXCEPT !.pc = "done"]
    /\ UNCHANGED <<yaml, config, hashOrder, listed, git, found, fsVars, runVars,
                   histVars,
                   progVars>>

\* The transport calls the credential callback of a retry attempt
RetryCallback ==
    /\ creds # Nil /\ creds.pc = "retry" /\ creds.calls < MaxCallbacks
    /\ \E allowed \in AllowedSets, agent \in BOOLEAN :
         LET c == retry_callback(creds, allowed, agent)
         IN creds' = [c EXCEPT !.calls = creds.calls + 1, !.allowed = allowed,
                               !.only_ssh_key = @ /\ allowed = {"SSH_KEY"}]
    /\ UNCHANGED <<yaml, config, hashOrder, listed, git, found, fsVars, runVars,
                   histVars,
                   progVars>>

\* A retry attempt returns: res is replaced; the loop is left unless the
\* inner counter is 2, and goes on to the next candidate when it is
RetryReturn ==
    /\ creds # Nil /\ creds.pc = "retry"
    /\ \E r \in AttemptResults(creds) :
         LET c == [creds EXCEPT
                     !.res = r,
                     !.outcomes = Append(@, [u |-> creds.u, res |-> r,
                                             attempts |-> creds.attempts])]
         IN creds' = IF c.attempts # 2 THEN [c EXCEPT !.pc = "done"]
                     ELSE NextCandidate(c, git)
    /\ UNCHANGED <<yaml, config, hashOrder, listed, git, found, fsVars, runVars,
                   histVars,
                   progVars>>

NextCreds ==
    WithCreds \/ FirstCallback \/ FirstReturn \/ RetryCallback \/ RetryReturn

SpecCreds == InitCreds /\ [][NextCreds]_vars

\* --------------------------------------------------------------- filesystem

\* What a path holds
Kinds == {"absent", "file", "dir"}

\* The entry at a path; "/" is a directory, an unknown path holds nothing
kind_of(f, p) ==
    IF p = <<"/">> THEN "dir" ELSE IF p \in DOMAIN f THEN f[p] ELSE "absent"

\* Path::exists
exists(f, p) == kind_of(f, p) # "absent"

\* Mutant: the directory is created whether or not its parent exists
create_dir_all(f, p) ==
    IF kind_of(f, parent(p)) = "file" THEN "NotADirectory"
    ELSE IF exists(f, p) THEN "AlreadyExists"
    ELSE "Ok"

\* fs::create_dir: Ok, or the io::Error it returns (not recursive)
create_dir(f, p) ==
    IF kind_of(f, parent(p)) = "absent" THEN "NotFound"
    ELSE IF kind_of(f, parent(p)) = "file" THEN "NotADirectory"
    ELSE IF exists(f, p) THEN "AlreadyExists"
    ELSE "Ok"

\* The filesystem after create_dir returned r
after_create_dir(f, p, r) == IF r = "Ok" THEN [f EXCEPT ![p] = "dir"] ELSE f

\* An entry lies in a directory
Consistent(f) == \A p \in DOMAIN f : f[p] # "absent" => kind_of(f, parent(p)) = "dir"

Contains(v, x) == \E i \in 1..Len(v) : v[i] = x

\* Iterator::filter(|p| !p.exists()).collect()
filter_missing(paths, f) ==
    LET missing(p) == ~exists(f, p) IN SelectSeq(paths, missing)

\* Mutant: only a directory counts as present
doctor_dirs_only(c, f) ==
    LET missing(p) == kind_of(f, p) # "dir"
    IN [missing_workspaces |-> SelectSeq(collect_workspace_paths(c), missing),
        missing_projects |-> SelectSeq(collect_project_paths(c), missing)]

\* doctor
doctor(c, f) ==
    [missing_workspaces |-> filter_missing(collect_workspace_paths(c), f),
     missing_projects |-> filter_missing(collect_project_paths(c), f)]

\* git2 RepoBuilder::clone through with_creds: Ok when the remote is reached
\* and the target can be written
transport_clone(f, n, g) ==
    IF n = "up" /\ kind_of(f, parent(g.path)) = "dir" /\ kind_of(f, g.path) # "file"
    THEN "Ok" ELSE "CloneFailed"

\* ------------------------------------------------------------ restore inputs

\* Bounds of the environment and of re-invocation
MaxRuns == 2
MaxEnvSteps == 1

\* The declared tree restore runs on: w0 holds a plain project p0 and a git
\* project p1, w1 holds nothing; wsGit decides p1's clone strategy.
RestoreYaml(wsGit) ==
    [root |-> Root,
     git |-> NoGitConfig,
     ws |-> [c \in {<<"w0">>, <<"w1">>} |->
               [git |-> IF c = <<"w0">> THEN wsGit ELSE Nil]],
     projs |-> [c \in {<<"w0", "p0">>, <<"w0", "p1">>} |->
                  [git |-> IF c = <<"w0", "p1">>
                           THEN [repo |-> "o/n", core_settings |-> NoGitConfig]
                           ELSE Nil]]]

RestoreYamls ==
    { RestoreYaml(Nil),
      RestoreYaml([clone_strategy |-> "Worktree", protocol |-> None, host |-> None]) }

\* The paths the filesystem is followed at
FsPaths ==
    {Root, Root \o <<"w0">>, Root \o <<"w1">>,
     Root \o <<"w0", "p0">>, Root \o <<"w0", "p1">>}

\* enum RestoreOption, with absolute, relative and undeclared paths
RestoreOptions ==
    [kind : {"Workspace"},
     path : {Root \o <<"w0">>, <<"w0">>, Root \o <<"w1">>, Root \o <<"wx">>,
             <<"wx">>},
     include_projects : BOOLEAN]
    \cup [kind : {"AllWorkspaces"}, path : {<<>>}, include_projects : BOOLEAN]
    \cup [kind : {"Project"},
          path : {Root \o <<"w0", "p0">>, Root \o <<"w0", "p1">>, <<"w0", "p1">>,
                  Root \o <<"w0", "px">>, Root \o <<"wx", "p0">>},
          include_projects : {FALSE}]

Ev(op, path, r) == [op |-> op, path |-> path, r |-> r]
Flag(include_projects) ==
    IF include_projects THEN "include_projects" ELSE "workspace_only"

\* ------------------------------------------------------------------ restore

\* Mutant: the workspace directory is never created
workspace_is_missing_never(d, ws_path) == FALSE

\* diagnosis.missing_workspaces.contains(&ws_path)
workspace_is_missing(d, ws_path) == Contains(d.missing_workspaces, ws_path)

\* Mutant: no project is taken as diagnosed missing
project_is_missing_never(d, proj_path) == FALSE

\* Mutant: every project path is taken as diagnosed missing
project_is_missing_always(d, proj_path) == TRUE

\* diagnosis.missing_projects.contains(&proj_path)
project_is_missing(d, proj_path) == Contains(d.missing_projects, proj_path)

\* Mutant: every declared workspace is iterated
workspaces_to_restore_all(c, d) == collect_workspace_paths(c)

\* AllWorkspaces arm: diagnosis.missing_workspaces.iter()
workspaces_to_restore(c, d) == d.missing_workspaces

\* Mutant: the path is used as it was given
rooted_as_given(c, path) == path

\* restore: a path that does not start with config.root is joined to it
rooted(c, path) == IF starts_with(path, c.root) THEN path ELSE join(c.root, path)

\* lookup_workspace: the path its error message names, the root stripped
stripped(c, ws_path) ==
    IF starts_with(ws_path, c.root) THEN strip_prefix(ws_path, c.root) ELSE ws_path

\* restore returns r
Finish(r) == pc' = "done" /\ result' = r /\ projQueue' = projQueue

\* Mutant: an error is dropped and the batch goes on
Try_ignore_error(r, continue) == continue

\* The ? operator: an error returns at once from every enclosing restore
Try(r, continue) == IF r = "Ok" THEN continue ELSE Finish(r)

\* restore, Project arm after the workspace call: the project is restored
\* when the outer diagnosis lists it
ProjectBody(o) ==
    LET proj_path == rooted(config, o.path)
    IN IF ~project_is_missing(diagnosis, proj_path) THEN Finish("Ok")
       ELSE pc' = "restore_project" /\ result' = "none" /\ projQueue' = <<proj_path>>

\* restore(Workspace) returned Ok to its caller
WorkspaceOk(o) ==
    CASE o.kind = "Workspace" -> Finish("Ok")
      [] o.kind = "AllWorkspaces" ->
            pc' = "all_workspaces" /\ result' = "none" /\ projQueue' = <<>>
      [] o.kind = "Project" -> ProjectBody(o)

\* The for loop over project paths (one path in the Project arm)
ProjectsLoop(o, q) ==
    IF q = <<>>
    THEN IF o.kind = "Project" THEN Finish("Ok") ELSE WorkspaceOk(o)
    ELSE pc' = "restore_project" /\ result' = "none" /\ projQueue' = q

\* restore, Workspace arm after the directory: return, or loop over projects
AfterWorkspaceDir(o, w, ws_path, include_projects) ==
    IF ~include_projects THEN WorkspaceOk(o)
    ELSE ProjectsLoop(o, Workspace_collect_project_paths(config.workspaces[w], ws_path))

\* restore, Workspace arm up to the directory: lookup, path, diagnosis test
EnterWorkspace(o, path, include_projects, d, lg) ==
    LET w == lookup_workspace(config, path)
        ws_path == rooted(config, path)
    IN IF w = None
       THEN /\ wsFrame' = Nil
            /\ log' = Append(lg, Ev("restore_workspace", stripped(config, path),
                                   "LookupFailed"))
            /\ Finish("LookupFailed")
       ELSE /\ wsFrame' = [key |-> w, ws_path |-> ws_path,
                           include_projects |-> include_projects, diagnosis |-> d]
            /\ log' = Append(lg, Ev("restore_workspace", ws_path, Flag(include_projects)))
            /\ IF workspace_is_missing(d, ws_path)
               THEN pc' = "create_workspace_dir" /\ result' = "none"
                    /\ projQueue' = <<>>
               ELSE AfterWorkspaceDir(o, w, ws_path, include_projects)


\* The project a restore_project call is at
CurrentProject == Head(projQueue)

Init ==
    /\ yaml \in RestoreYamls
    /\ config = from_str(yaml)
    /\ hashOrder \in HashOrders
    /\ listed = [kind |-> "none", paths |-> <<>>]
    /\ git = Nil
    /\ found = Nil
    /\ creds = Nil
    /\ fs \in {f \in [FsPaths -> Kinds] : Consistent(f)}
    /\ repos = {}
    /\ net \in {"up", "down"}
    /\ pc = "idle"
    /\ opt = Nil
    /\ result = "none"
    /\ diagnosis = Nil
    /\ wsFrame = Nil
    /\ wsQueue = <<>>
    /\ projQueue = <<>>
    /\ log = <<>>
    /\ runs = 0
    /\ start = Nil
    /\ prev = Nil
    /\ quiet = TRUE
    /\ made = {}
    /\ envSteps = 0
    /\ NoProgress

\* Mutant: doctor repairs what it finds, creating the first missing workspace
Doctor_restoring ==
    /\ pc = "idle"
    /\ diagnosis' = doctor(config, fs)
    /\ fs' = IF doctor(config, fs).missing_workspaces = <<>> THEN fs
             ELSE after_create_dir(fs, doctor(config, fs).missing_workspaces[1],
                      create_dir(fs, doctor(config, fs).missing_workspaces[1]))
    /\ UNCHANGED <<cfgVars, repos, net, pc, opt, result, wsFrame, wsQueue,
                   projQueue, log, histVars,
                   progVars>>

\* workspaces doctor (bin/workspaces.rs): doctor(&config)
Doctor ==
    /\ pc = "idle"
    /\ diagnosis' = doctor(config, fs)
    /\ UNCHANGED <<cfgVars, fsVars, pc, opt, result, wsFrame, wsQueue, projQueue,
                   log, histVars,
                   progVars>>

\* restore, recorded as the call of the option given, does what the code does
\* on the option o: the diagnosis, then the arm of the option.  A finished
\* restore is invoked again with the same option.
RestoreCall(given, o) ==
    /\ runs < MaxRuns
    /\ pc = "idle" \/ (pc = "done" /\ given = opt)
    /\ LET d == doctor(config, fs)
       IN /\ diagnosis' = d
          /\ opt' = given
          /\ CASE o.kind = "Workspace" ->
                    /\ EnterWorkspace(o, o.path, o.include_projects, d, <<>>)
                    /\ wsQueue' = <<>>
               [] o.kind = "AllWorkspaces" ->
                    /\ wsQueue' = workspaces_to_restore(config, d)
                    /\ pc' = "all_workspaces" /\ result' = "none"
                    /\ projQueue' = <<>> /\ wsFrame' = Nil /\ log' = <<>>
               [] o.kind = "Project" ->
                    /\ pc' = "project_parent" /\ result' = "none"
                    /\ projQueue' = <<>> /\ wsFrame' = Nil /\ log' = <<>>
                    /\ wsQueue' = <<>>
    /\ runs' = runs + 1
    /\ start' = [fs |-> fs, repos |-> repos]
    /\ prev' = IF pc = "done"
               THEN [opt |-> opt, result |-> result, quiet |-> quiet,
                     start |-> start]
               ELSE Nil
    /\ quiet' = TRUE
    /\ UNCHANGED <<cfgVars, fsVars, made, envSteps,
                   progVars>>

\* workspaces restore (bin/workspaces.rs): restore(&config, option)
Restore == \E o \in RestoreOptions : RestoreCall(o, o)

\* restore, AllWorkspaces arm: the next missing workspace is restored by a
\* restore(Workspace) call, which takes its own diagnosis
AllWorkspacesNextOf(o) ==
    /\ pc = "all_workspaces"
    /\ IF wsQueue = <<>>
       THEN Finish("Ok") /\ UNCHANGED <<wsFrame, log, wsQueue>>
       ELSE /\ EnterWorkspace(o, Head(wsQueue), o.include_projects,
                              doctor(config, fs), log)
            /\ wsQueue' = Tail(wsQueue)
    /\ UNCHANGED <<cfgVars, fsVars, opt, diagnosis, histVars,
                   progVars>>

AllWorkspacesNext == AllWorkspacesNextOf(opt)

\* restore, Project arm: restore(Workspace) of the parent path
ProjectParentOf(o) ==
    /\ pc = "project_parent"
    /\ EnterWorkspace(o, parent(o.path), FALSE, doctor(config, fs), log)
    /\ UNCHANGED <<cfgVars, fsVars, opt, diagnosis, wsQueue, histVars,
                   progVars>>

ProjectParent == ProjectParentOf(opt)

\* restore, Workspace arm: fs::create_dir(&ws_path)?
CreateWorkspaceDirOf(o) ==
    /\ pc = "create_workspace_dir"
    /\ LET r == create_dir(fs, wsFrame.ws_path)
       IN /\ fs' = after_create_dir(fs, wsFrame.ws_path, r)
          /\ made' = IF r = "Ok" THEN made \cup {wsFrame.ws_path} ELSE made
          /\ log' = Append(log, Ev("create_dir", wsFrame.ws_path, r))
          /\ Try(r, AfterWorkspaceDir(o, wsFrame.key, wsFrame.ws_path,
                                      wsFrame.include_projects))
    /\ UNCHANGED <<cfgVars, repos, net, opt, diagnosis, wsFrame, wsQueue,
                   runs, start, prev, quiet, envSteps,
                   progVars>>

CreateWorkspaceDir == CreateWorkspaceDirOf(opt)

\* restore_project up to the creation: skip when present, lookup, Git::new
RestoreProjectOf(o) ==
    /\ pc = "restore_project"
    /\ IF exists(fs, CurrentProject)
       THEN ProjectsLoop(o, Tail(projQueue)) /\ git' = git
       ELSE LET k == lookup_project(config, CurrentProject)
            IN IF k = Nil THEN Finish("LookupFailed") /\ git' = git
               ELSE IF config.workspaces[k.ws].projects[k.proj].git = Nil
                    THEN /\ pc' = "create_project_dir" /\ result' = "none"
                         /\ projQueue' = projQueue /\ git' = git
                    ELSE /\ git' = Git_new(CurrentProject,
                                     config.workspaces[k.ws].projects[k.proj].git)
                         /\ pc' = "git_clone" /\ result' = "none"
                         /\ projQueue' = projQueue
    /\ UNCHANGED <<yaml, config, hashOrder, listed, found, creds, fsVars, opt,
                   diagnosis, wsFrame, wsQueue, log, histVars,
                   progVars>>

RestoreProject == RestoreProjectOf(opt)

\* restore_project: fs::create_dir(proj_path)
CreateProjectDirOf(o) ==
    /\ pc = "create_project_dir"
    /\ LET r == create_dir(fs, CurrentProject)
       IN /\ fs' = after_create_dir(fs, CurrentProject, r)
          /\ made' = IF r = "Ok" THEN made \cup {CurrentProject} ELSE made
          /\ log' = Append(log, Ev("create_dir", CurrentProject, r))
          /\ Try(r, ProjectsLoop(o, Tail(projQueue)))
    /\ UNCHANGED <<cfgVars, repos, net, opt, diagnosis, wsFrame, wsQueue,
                   runs, start, prev, quiet, envSteps,
                   progVars>>

CreateProjectDir == CreateProjectDirOf(opt)

\* Git::clone: Ok when the path exists, else the strategy decides the target
GitCloneOf(o) ==
    /\ pc = "git_clone"
    /\ IF exists(fs, git.path) THEN ProjectsLoop(o, Tail(projQueue))
       ELSE /\ pc' = IF is_worktree(git.strategy) THEN "git_create_dir"
                     ELSE "git_fetch"
            /\ result' = "none" /\ projQueue' = projQueue
    /\ UNCHANGED <<cfgVars, fsVars, opt, diagnosis, wsFrame, wsQueue, log,
                   histVars,
                   progVars>>

GitClone == GitCloneOf(opt)

\* Git::clone, worktree strategy: fs::create_dir(self.path)?
GitCreateDir ==
    /\ pc = "git_create_dir"
    /\ LET r == create_dir(fs, git.path)
       IN /\ fs' = after_create_dir(fs, git.path, r)
          /\ made' = IF r = "Ok" THEN made \cup {git.path} ELSE made
          /\ log' = Append(log, Ev("create_dir", git.path, r))
          /\ Try(r, pc' = "git_fetch" /\ result' = "none"
                    /\ projQueue' = projQueue)
    /\ UNCHANGED <<cfgVars, repos, net, opt, diagnosis, wsFrame, wsQueue,
                   runs, start, prev, quiet, envSteps,
                   progVars>>

\* Git::clone: with_creds runs the clone into the path (or path/.bare)
GitFetchOf(o) ==
    /\ pc = "git_fetch"
    /\ LET r == transport_clone(fs, net, git)
       IN /\ fs' = IF r = "Ok" THEN [fs EXCEPT ![git.path] = "dir"] ELSE fs
          /\ repos' = IF r = "Ok" THEN repos \cup {git.path} ELSE repos
          /\ made' = IF r = "Ok" THEN made \cup {git.path} ELSE made
          /\ log' = Append(log, Ev("clone", git.path, r))
          /\ Try(r, ProjectsLoop(o, Tail(projQueue)))
    /\ UNCHANGED <<cfgVars, net, opt, diagnosis, wsFrame, wsQueue,
                   runs, start, prev, quiet, envSteps,
                   progVars>>

GitFetch == GitFetchOf(opt)

Running == pc \notin {"idle", "done"}

\* Another process creates a directory while restore runs
ExternalCreateDir ==
    /\ Running
    /\ envSteps < MaxEnvSteps
    /\ \E p \in DOMAIN fs :
         /\ create_dir(fs, p) = "Ok"
         /\ fs' = [fs EXCEPT ![p] = "dir"]
    /\ quiet' = FALSE
    /\ envSteps' = envSteps + 1
    /\ UNCHANGED <<cfgVars, repos, net, runVars, runs, start, prev, made,
                   progVars>>

\* The process is interrupted: no cancellation, what is on disk stays
Interrupt ==
    /\ Running
    /\ envSteps < MaxEnvSteps
    /\ pc' = "done"
    /\ result' = "Interrupted"
    /\ quiet' = FALSE
    /\ envSteps' = envSteps + 1
    /\ UNCHANGED <<cfgVars, fsVars, opt, diagnosis, wsFrame, wsQueue, projQueue,
                   log, runs, start, prev, made,
                   progVars>>

\* The remote becomes reachable or unreachable between two restores
NetChange ==
    /\ pc = "done"
    /\ envSteps < MaxEnvSteps
    /\ net' = IF net = "up" THEN "down" ELSE "up"
    /\ quiet' = FALSE
    /\ envSteps' = envSteps + 1
    /\ UNCHANGED <<cfgVars, fs, repos, runVars, runs, start, prev, made,
                   progVars>>

Next ==
    \/ Doctor
    \/ Restore
    \/ AllWorkspacesNext
    \/ ProjectParent
    \/ CreateWorkspaceDir
    \/ RestoreProject
    \/ CreateProjectDir
    \/ GitClone
    \/ GitCreateDir
    \/ GitFetch
    \/ ExternalCreateDir
    \/ Interrupt
    \/ NetChange

Spec == Init /\ [][Next]_vars


\* ------------------------------------------- progress reporter (git.rs)

\* Option::Some
Some(v) == [some |-> v]

\* A String is the sequence of its characters
Spaces(n) == [i \in 1..n |-> " "]
DigitChar(d) == <<"0", "1", "2", "3", "4", "5", "6", "7", "8", "9">>[d + 1]

\* {} of an unsigned integer
RECURSIVE Digits(_)
Digits(n) == IF n < 10 THEN <<DigitChar(n)>>
             ELSE Digits(n \div 10) \o <<DigitChar(n % 10)>>

\* The quotient a / b rounded to the nearest integer, ties to even: what
\* {:.2} does to the hundredths of a float
RoundDiv(a, b) ==
    LET q == a \div b
        r == a % b
    IN IF 2 * r > b \/ (2 * r = b /\ q % 2 = 1) THEN q + 1 ELSE q

\* {:.2} of the number h / 100
Fixed2(h) ==
    Digits(h \div 100) \o <<".">> \o <<DigitChar((h \div 10) % 10), DigitChar(h % 10)>>

\* {:w} of a number: right-aligned in w columns
PadLeft(s, w) == IF Len(s) < w THEN Spaces(w - Len(s)) \o s ELSE s

\* shell::imp::err_width (unix): TtyWidth::Known(80)
err_width == 80

\* TtyWidth::size: the known width, whatever the default
TtyWidth_size(w, def) == w

\* Shell::new
Shell_new == [needs_clear |-> FALSE, quiet |-> FALSE]

\* Shell::set_needs_clear
set_needs_clear(sh, needs_clear) == [sh EXCEPT !.needs_clear = needs_clear]

\* Shell::is_cleared
is_cleared(sh) == ~sh.needs_clear

\* Shell::status_header -> Shell::print: nothing unless quiet, else the line
\* is erased where a clear is needed
status_header(sh) ==
    IF ~sh.quiet THEN sh
    ELSE IF sh.needs_clear THEN [sh EXCEPT !.needs_clear = FALSE] ELSE sh

\* Throttle::new
Throttle_new(t) == [first |-> TRUE, last_update |-> t]

\* Throttle::update
Throttle_update(th, t) == [first |-> FALSE, last_update |-> t]

\* The delay before the first render and the interval between renders, ms
delay == 500
interval == 100

\* Mutant: the first render waits no longer than the later ones
Throttle_allowed_no_delay(th, t) == ~(t - th.last_update < interval)

\* Throttle::allowed, its test (the update is made by Progress_tick)
Throttle_allowed(th, t) ==
    IF th.first THEN ~(t - th.last_update < delay)
    ELSE ~(t - th.last_update < interval)

\* Progress::new("Fetch") at time t
Progress_new(t) ==
    [name |-> "Fetch",
     format |-> [max_width |-> TtyWidth_size(err_width, 80), max_print |-> 50],
     throttle |-> Throttle_new(t),
     done |-> FALSE,
     last_line |-> Nil,
     shell |-> Shell_new]

\* Mutant: the wider of the two widths
Format_width_max(fmt) ==
    IF fmt.max_width > fmt.max_print THEN fmt.max_width ELSE fmt.max_print

\* Format::width: cmp::min(self.max_width, self.max_print)
Format_width(fmt) ==
    IF fmt.max_width < fmt.max_print THEN fmt.max_width ELSE fmt.max_print

\* usize::checked_sub
checked_sub(a, b) == IF a < b THEN Nil ELSE Some(a - b)

\* assert!(cur <= max) of Format::progress: what the reporter asserts of
\* the samples it is given
Format_progress_asserts(cur, max) == cur <= max

\* format!(" {:6.02}%", pct * 100.0), pct = cur / max or 0.0 when that is
\* not finite
Format_stats(cur, max) ==
    <<" ">> \o PadLeft(Fixed2(IF max = 0 THEN 0 ELSE RoundDiv(10000 * cur, max)), 6)
            \o <<"%">>

\* Mutant: the fill is rounded up
Format_hashes_ceil(display_width, cur, max) ==
    IF max = 0 THEN 0 ELSE (display_width * cur + max - 1) \div max

\* (display_width as f64 * pct) as usize
Format_hashes(display_width, cur, max) ==
    IF max = 0 THEN 0 ELSE (display_width * cur) \div max

\* Format::progress: None when the width has no room for the bar, else
\* Some("[===>   ] pct%")
Format_progress(fmt, cur, max) ==
    LET stats == Format_stats(cur, max)
        extra_len == Len(stats) + 2 + 15
        w == checked_sub(Format_width(fmt), extra_len)
    IN IF w = Nil THEN Nil
       ELSE LET display_width == w.some
                hashes == Format_hashes(display_width, cur, max)
            IN Some(<<"[">>
                    \o (IF hashes > 0
                        THEN [i \in 1..(hashes - 1) |-> "="]
                             \o (IF cur = max THEN <<"=">> ELSE <<">">>)
                        ELSE <<>>)
                    \o Spaces(display_width - hashes)
                    \o <<"]">> \o stats)

\* Format::render: the message appended to the line, cut with an ellipsis
\* where it does not fit (every character of a message is one column wide)
RECURSIVE render_chars(_, _, _, _)
render_chars(string, avail_msg_len, ellipsis_pos, msg) ==
    IF msg = <<>> THEN string
    ELSE IF avail_msg_len >= 1
    THEN render_chars(Append(string, Head(msg)), avail_msg_len - 1,
                      IF avail_msg_len - 1 >= 3 THEN Len(string) + 1
                      ELSE ellipsis_pos,
                      Tail(msg))
    ELSE SubSeq(string, 1, ellipsis_pos) \o <<".", ".", ".">>

Format_render(fmt, string, msg) ==
    LET avail_msg_len == fmt.max_width - Len(string) - 15
    IN IF avail_msg_len <= 3 THEN string
       ELSE render_chars(string, avail_msg_len, 0, msg)

\* State::try_update_max_width
try_update_max_width(st) ==
    [st EXCEPT !.format.max_width = TtyWidth_size(err_width, st.format.max_width)]

\* What a tick did: the reporter after it, the outcome, and, where print got
\* to its test, whether the line equalled the last one drawn and whether the
\* terminal was clear
Ticked(st, outcome, same, cleared) ==
    [state |-> st, outcome |-> outcome, same |-> same, cleared |-> cleared]

\* The line State::print computes: the bar, the message, padded
print_line(fmt, prefix, msg) ==
    LET line == Format_render(fmt, prefix, msg)
    IN IF Len(line) < fmt.max_width - 15
       THEN line \o Spaces(fmt.max_width - 15 - Len(line)) ELSE line

\* Mutant: the line is written only when it equals the last one drawn and
\* the terminal is clear
State_print_inverted(st, prefix, msg, t) ==
    LET s1 == try_update_max_width(
                  [st EXCEPT !.throttle = Throttle_update(st.throttle, t)])
        line == print_line(s1.format, prefix, msg)
        same == s1.last_line = Some(line)
        cleared == is_cleared(s1.shell)
    IN IF s1.format.max_width < 15 THEN Ticked(s1, "no_room", FALSE, FALSE)
       ELSE IF ~(same /\ cleared)
       THEN Ticked(s1, "skipped", same, cleared)
       ELSE Ticked([s1 EXCEPT !.last_line = Some(line),
                              !.shell = set_needs_clear(status_header(
                                            set_needs_clear(s1.shell, FALSE)), TRUE)],
                   "written", same, cleared)

\* State::print at time t
State_print(st, prefix, msg, t) ==
    LET s1 == try_update_max_width(
                  [st EXCEPT !.throttle = Throttle_update(st.throttle, t)])
        line == print_line(s1.format, prefix, msg)
        same == s1.last_line = Some(line)
        cleared == is_cleared(s1.shell)
    IN IF s1.format.max_width < 15 THEN Ticked(s1, "no_room", FALSE, FALSE)
       ELSE IF cleared \/ ~same
       THEN Ticked([s1 EXCEPT !.last_line = Some(line),
                              !.shell = set_needs_clear(status_header(
                                            set_needs_clear(s1.shell, FALSE)), TRUE)],
                   "written", same, cleared)
       ELSE Ticked(s1, "skipped", same, cleared)

\* Mutant: a finished reporter goes on rendering
State_tick_never_done(st, cur, max, msg, t) ==
    LET s1 == try_update_max_width([st EXCEPT !.done = @ \/ (max > 0 /\ cur = max)])
        pbar == Format_progress(s1.format, cur, max)
    IN IF pbar = Nil THEN Ticked(s1, "no_bar", FALSE, FALSE)
       ELSE State_print(s1, pbar.some, msg, t)

\* State::tick at time t
State_tick(st, cur, max, msg, t) ==
    IF st.done THEN Ticked(st, "ignored", FALSE, FALSE)
    ELSE LET s1 == try_update_max_width(
                       [st EXCEPT !.done = @ \/ (max > 0 /\ cur = max)])
             pbar == Format_progress(s1.format, cur, max)
         IN IF pbar = Nil THEN Ticked(s1, "no_bar", FALSE, FALSE)
            ELSE State_print(s1, pbar.some, msg, t)

\* Progress::tick at time t: the throttle, then State::tick
Progress_tick(p, cur, max, msg, t) ==
    IF ~Throttle_allowed(p.throttle, t) THEN Ticked(p, "throttled", FALSE, FALSE)
    ELSE State_tick([p EXCEPT !.throttle = Throttle_update(p.throttle, t)],
                    cur, max, msg, t)

\* MetricsCounter::<N>: the number of slots Git::clone gives it
N == 10

\* MetricsCounter::new: every slot holds the initial record; slots are
\* numbered from 0
MetricsCounter_new(init, init_at) ==
    [slots |-> [i \in 0..(N - 1) |-> <<init, init_at>>], index |-> 0]

\* MetricsCounter::add
MetricsCounter_add(c, data, added_at) ==
    [slots |-> [c.slots EXCEPT ![c.index] = <<data, added_at>>],
     index |-> (c.index + 1) % N]

\* An f32 quotient a / b of a byte count by a duration in ms: a / 0 is
\* infinite, 0 / 0 is NaN; a finite one is kept as the fraction it is
Quotient(a, b) ==
    IF b = 0 THEN [kind |-> IF a = 0 THEN "NaN" ELSE "inf", num |-> 0, den |-> 1]
    ELSE [kind |-> "finite", num |-> a, den |-> b]

\* Mutant: the rate is taken from the slot after the oldest
MetricsCounter_rate_second_oldest(c) ==
    LET latest == c.slots[IF c.index = 0 THEN N - 1 ELSE c.index - 1]
        oldest == c.slots[(c.index + 1) % N]
        avg == Quotient(latest[1] - oldest[1], latest[2] - oldest[2])
    IN IF avg.kind = "NaN" THEN [kind |-> "finite", num |-> 0, den |-> 1] ELSE avg

\* MetricsCounter::rate: bytes per millisecond between the oldest and the
\* latest slot, 0 where the quotient is NaN
MetricsCounter_rate(c) ==
    LET latest == c.slots[IF c.index = 0 THEN N - 1 ELSE c.index - 1]
        oldest == c.slots[c.index]
        avg == Quotient(latest[1] - oldest[1], latest[2] - oldest[2])
    IN IF avg.kind = "NaN" THEN [kind |-> "finite", num |-> 0, den |-> 1] ELSE avg

\* counter.rate() as u64: bytes per second, truncated (of a finite rate)
rate_as_u64(r) == (r.num * 1000) \div r.den

\* Git::human_readable_bytes: the index of the unit, (log2(bytes) / 10) as
\* usize, at most 6
RECURSIVE unit_index(_, _)
unit_index(bytes, i) ==
    IF i < 6 /\ bytes >= 1024 THEN unit_index(bytes \div 1024, i + 1) ELSE i

UNITS ==
    << <<"B">>, <<"K", "i", "B">>, <<"M", "i", "B">>, <<"G", "i", "B">>,
       <<"T", "i", "B">>, <<"P", "i", "B">>, <<"E", "i", "B">> >>

RECURSIVE Power(_, _)
Power(b, e) == IF e = 0 THEN 1 ELSE b * Power(b, e - 1)

\* Git::human_readable_bytes, the quantity in hundredths and the unit
human_readable_bytes(bytes) ==
    LET i == unit_index(bytes, 0)
    IN [hundredths |-> RoundDiv(bytes * 100, Power(1024, i)), unit |-> UNITS[i + 1]]

\* format!(", {:.2}{}/s", rate, unit) of human_readable_bytes(rate as u64);
\* an infinite rate saturates to u64::MAX, which reads 16.00EiB
rate_msg(r) ==
    IF r.kind = "inf"
    THEN <<",", " ", "1", "6", ".", "0", "0", "E", "i", "B", "/", "s">>
    ELSE LET h == human_readable_bytes(rate_as_u64(r))
         IN <<",", " ">> \o Fixed2(h.hundredths) \o h.unit \o <<"/", "s">>

\* format!(", ({}/{}) resolvings deltas", indexed_deltas, total_deltas)
deltas_msg(indexed_deltas, total_deltas) ==
    <<",", " ", "(">> \o Digits(indexed_deltas) \o <<"/">> \o Digits(total_deltas)
    \o <<")", " ", "r", "e", "s", "o", "l", "v", "i", "n", "g", "s", " ",
         "d", "e", "l", "t", "a", "s">>

\* The period of the scrape into the counter, ms
scrape_period == 300

\* ------------------------------------------ the progress specifications

\* Bounds: callbacks of a bursty transport, callbacks of a steady one, and
\* the largest object count formatted
MaxTicks == 3
MaxSteadyTicks == 12
MaxTotal == 30

\* What a transport gives a callback: the time since the previous one (ms),
\* the sample (indexed_objects, total_objects), the deltas (indexed_deltas,
\* total_deltas) and the bytes received since the previous one
Delays == {50, 100, 350, 500}
Samples == {<<0, 0>>, <<1, 3>>, <<2, 3>>, <<3, 3>>}
Deltas == {<<0, 0>>, <<1, 2>>}
ByteSteps == {700}

\* A transport that calls back every 300 or 350 ms while it receives
SteadyDelays == {300, 350}
SteadySamples == {<<1, 3>>}
SteadyDeltas == {<<0, 0>>}
SteadyByteSteps == {700}

\* Git::clone up to with_creds: Progress::new("Fetch")
InitProgress ==
    /\ yaml = MkYaml(TwoWorkspaces, NoGitConfig, Nil, Nil)
    /\ hashOrder = <<"w0", "w1", "p0", "p1">>
    /\ config = from_str(yaml)
    /\ listed = [kind |-> "none", paths |-> <<>>]
    /\ git = Nil
    /\ found = Nil
    /\ creds = Nil
    /\ fs = [p \in {} |-> "absent"]
    /\ repos = {}
    /\ net = "up"
    /\ pc = "idle"
    /\ opt = Nil
    /\ result = "none"
    /\ diagnosis = Nil
    /\ wsFrame = Nil
    /\ wsQueue = <<>>
    /\ projQueue = <<>>
    /\ log = <<>>
    /\ runs = 0
    /\ start = Nil
    /\ prev = Nil
    /\ quiet = TRUE
    /\ made = {}
    /\ envSteps = 0
    /\ now = 0
    /\ received = 0
    /\ progress = Progress_new(0)
    /\ counter = Nil
    /\ last_update = 0
    /\ ticked = Nil
    /\ shown = <<>>
    /\ added = <<>>
    /\ ticks = 0
    /\ bar = Nil

\* Git::clone, the closure given to with_creds starts an attempt:
\* last_update = Instant::now(), counter = MetricsCounter::<10>::new(0, last_update)
StartAttempt ==
    /\ progress # Nil /\ counter = Nil
    /\ \E dt \in {0, 50} :
         /\ now' = now + dt
         /\ last_update' = now + dt
         /\ counter' = MetricsCounter_new(0, now + dt)
         /\ added' = << <<0, now + dt>> >>
    /\ UNCHANGED <<cfgVars, fsVars, runVars, histVars, received, progress,
                   ticked, shown, ticks, bar>>

\* Git::clone, the transfer_progress callback: the scrape into the counter,
\* the message, progress.tick
TransferProgressOf(delays, samples, deltas, steps, max_ticks) ==
    /\ counter # Nil /\ ticks < max_ticks
    /\ \E dt \in delays, s \in samples, ds \in deltas, step \in steps :
         LET t == now + dt
             received_bytes == received + step
             scraped == ds[1] = 0 /\ t - last_update > scrape_period
             c == IF scraped THEN MetricsCounter_add(counter, received_bytes, t)
                  ELSE counter
             msg == IF ds[1] > 0 THEN deltas_msg(ds[1], ds[2])
                    ELSE rate_msg(MetricsCounter_rate(c))
             r == Progress_tick(progress, s[1], s[2], msg, t)
         IN /\ Format_progress_asserts(s[1], s[2])
            /\ now' = t
            /\ received' = received_bytes
            /\ counter' = c
            /\ last_update' = IF scraped THEN t ELSE last_update
            /\ added' = IF scraped THEN Append(added, <<received_bytes, t>>)
                        ELSE added
            /\ progress' = r.state
            /\ ticked' = [at |-> t, cur |-> s[1], max |-> s[2], msg |-> msg,
                          outcome |-> r.outcome, same |-> r.same,
                          cleared |-> r.cleared]
            /\ shown' = IF r.outcome = "written" THEN Append(shown, t) ELSE shown
            /\ ticks' = ticks + 1
    /\ UNCHANGED <<cfgVars, fsVars, runVars, histVars, bar>>

TransferProgress ==
    TransferProgressOf(Delays, Samples, Deltas, ByteSteps, MaxTicks)

NextProgress == StartAttempt \/ TransferProgress

SpecProgress == InitProgress /\ [][NextProgress]_vars

\* The callbacks of a steady transport
SteadyTransferProgress ==
    TransferProgressOf(SteadyDelays, SteadySamples, SteadyDeltas,
                       SteadyByteSteps, MaxSteadyTicks)

NextRate == StartAttempt \/ SteadyTransferProgress

SpecRate == InitProgress /\ [][NextRate]_vars

\* Format::progress applied to a sample
FormatProgress ==
    /\ progress # Nil
    /\ \E max \in 0..MaxTotal :
         \E cur \in 0..max :
           /\ Format_progress_asserts(cur, max)
           /\ bar' = [cur |-> cur, max |-> max,
                      out |-> Format_progress(progress.format, cur, max)]
    /\ UNCHANGED <<cfgVars, fsVars, runVars, histVars, now, received, progress,
                   counter, last_update, ticked, shown, added, ticks>>

NextLayout == FormatProgress

SpecLayout == InitProgress /\ [][NextLayout]_vars

\* ------------------------------------------------------ claims on the config

Range(s) == {s[i] : i \in 1..Len(s)}
NoDuplicates(s) == \A i, j \in 1..Len(s) : s[i] = s[j] => i = j

\* The path of a declared node: root joined with its chain of keys
DeclaredPath(chain) == join(yaml.root, chain)

\* C1: a listing holds exactly one entry per declared workspace (project) at
\* any nesting depth, each equal to root joined with the node's key chain.
C1_OneEntryPerDeclaredNode ==
    /\ listed.kind = "workspaces" =>
         /\ NoDuplicates(listed.paths)
         /\ Range(listed.paths) = {DeclaredPath(c) : c \in DOMAIN yaml.ws}
    /\ listed.kind = "projects" =>
         /\ NoDuplicates(listed.paths)
         /\ Range(listed.paths) = {DeclaredPath(c) : c \in DOMAIN yaml.projs}

\* The first value that is set, from the deepest level up, else the default
FirstSet(values, default) ==
    IF values = <<>> THEN default
    ELSE IF values[1] # None THEN values[1]
    ELSE IF Len(values) > 1 /\ values[2] # None THEN values[2]
    ELSE IF Len(values) > 2 /\ values[3] # None THEN values[3]
    ELSE default

\* The GitConfig declared on the workspace of a project chain (unset if none)
DeclaredWsGit(chain) ==
    IF yaml.ws[<<chain[1]>>].git = Nil THEN NoGitConfig ELSE yaml.ws[<<chain[1]>>].git

\* C2: each of host, protocol and clone_strategy used to clone a project is
\* the value set on the project, else on its workspace, else at the config
\* root, else the default GitHub / HTTPS / Branch.
C2_Overlay ==
    git # Nil =>
      LET chain == strip_prefix(git.path, yaml.root)
          own == yaml.projs[chain].git.core_settings
          w == DeclaredWsGit(chain)
      IN /\ git.host = FirstSet(<<own.host, w.host, yaml.git.host>>, "GitHub")
         /\ git.protocol =
              FirstSet(<<own.protocol, w.protocol, yaml.git.protocol>>, "HTTPS")
         /\ git.strategy =
              FirstSet(<<own.clone_strategy, w.clone_strategy,
                         yaml.git.clone_strategy>>, "Branch")

\* C2 witness: a project keeps its own host against the workspace's and the
\* root's, inherits the protocol from the root, and defaults the strategy.
C2_Witness ==
    /\ git # Nil
    /\ git.path = join(yaml.root, <<"w0", "p0">>)
    /\ yaml.projs[<<"w0", "p0">>].git.core_settings.host = "GitHub"
    /\ yaml.ws[<<"w0">>].git # Nil
    /\ yaml.ws[<<"w0">>].git.host = "GitLab"
    /\ yaml.git.host = "GitLab"
    /\ yaml.projs[<<"w0", "p0">>].git.core_settings.protocol = None
    /\ yaml.ws[<<"w0">>].git.protocol = None
    /\ yaml.git.protocol = "SSH"
    /\ yaml.projs[<<"w0", "p0">>].git.core_settings.clone_strategy = None
    /\ yaml.ws[<<"w0">>].git.clone_strategy = None
    /\ yaml.git.clone_strategy = None
    /\ git.host = "GitHub" /\ git.protocol = "SSH" /\ git.strategy = "Branch"

\* ----------------------------------------------------- claims on restore

\* The declared nodes of the loaded config, by path
DeclaredWs == {join(config.root, <<n>>) : n \in DOMAIN config.workspaces}
ProjectsOf(ws_path) ==
    LET w == lookup_workspace(config, ws_path)
    IN IF w = None THEN {}
       ELSE {join(ws_path, <<m>>) : m \in DOMAIN config.workspaces[w].projects}
DeclaredProjs == UNION {ProjectsOf(w) : w \in DeclaredWs}
HasGit(proj_path) ==
    LET k == lookup_project(config, proj_path)
    IN k # Nil /\ config.workspaces[k.ws].projects[k.proj].git # Nil

\* The absolute form of the path a restore was given
AbsPath(path) ==
    IF starts_with(path, config.root) THEN path ELSE join(config.root, path)

\* The filesystem the diagnosis was taken on
DiagnosedFs == IF pc = "idle" THEN fs ELSE start.fs

Wrote(e) == e.op \in {"create_dir", "clone"}
Touched(path) == \E i \in 1..Len(log) : Wrote(log[i]) /\ log[i].path = path

SecondCall == pc = "done" /\ prev # Nil /\ prev.quiet /\ quiet

\* The running restore has created and cloned nothing
NoChange ==
    /\ fs = start.fs /\ repos = start.repos
    /\ \A i \in 1..Len(log) : Wrote(log[i]) => log[i].r # "Ok"

\* C4 as stated: the second of two identical restores returns what the first
\* returned and changes nothing on the filesystem, whatever the first returned.
C4_IdempotentAlways == SecondCall => result = prev.result /\ NoChange

\* What does hold of two identical restores: when the first returned success,
\* the second returns success and changes nothing on the filesystem.
IdempotentAfterSuccess ==
    SecondCall /\ prev.result = "Ok" => result = "Ok" /\ NoChange

\* A restore(Workspace w, include_projects = true) that found w absent
C5_Case ==
    /\ pc # "idle" /\ opt.kind = "Workspace" /\ opt.include_projects
    /\ wsFrame # Nil /\ start.fs[wsFrame.ws_path] = "absent"

\* C5: such a restore creates w before it acts on any project of w; when it
\* returns success w and every project path of w exist (a plain project as an
\* empty directory, not a clone); no project path made by restore ever lies
\* outside an existing workspace directory.
C5_WorkspaceThenProjects ==
    /\ C5_Case =>
         /\ \A i \in 1..Len(log) :
              Wrote(log[i]) /\ log[i].path \in ProjectsOf(wsFrame.ws_path) =>
                \E j \in 1..(i - 1) :
                    log[j] = Ev("create_dir", wsFrame.ws_path, "Ok")
         /\ pc = "done" /\ result = "Ok" =>
              /\ fs[wsFrame.ws_path] = "dir"
              /\ \A p \in ProjectsOf(wsFrame.ws_path) :
                   /\ exists(fs, p)
                   /\ ~HasGit(p) /\ p \in made => fs[p] = "dir" /\ p \notin repos
    /\ \A p \in made \cap DeclaredProjs : fs[parent(p)] = "dir"

\* C5 witness: the restore returned success having created w0, then p0 and
\* the clone p1.
C5_Witness ==
    /\ C5_Case /\ pc = "done" /\ result = "Ok" /\ runs = 1
    /\ Len(log) = 4
    /\ log[2] = Ev("create_dir", Root \o <<"w0">>, "Ok")
    /\ fs[Root \o <<"w0", "p0">>] = "dir"
    /\ Root \o <<"w0", "p1">> \in repos

\* A restore(Project p) is running or has returned
C6_Case == pc # "idle" /\ opt.kind = "Project"

ProjectSteps ==
    {"restore_project", "create_project_dir", "git_clone", "git_create_dir",
     "git_fetch"}

\* C6: restore(Project p) acts on p only once the parent workspace path
\* exists, restoring that one ancestor and nothing above it; a project
\* diagnosed missing is made an empty directory with no clone when it has no
\* git settings, and is cloned when it has.
C6_ProjectAfterWorkspace ==
    C6_Case =>
      /\ pc \in ProjectSteps => exists(fs, parent(AbsPath(opt.path)))
      /\ Touched(AbsPath(opt.path)) =>
           log[1].op = "restore_workspace" /\ log[1].path = parent(AbsPath(opt.path))
      /\ \A i \in 1..Len(log) :
           /\ log[i].op = "restore_workspace" => i = 1 /\ log[i].r # Flag(TRUE)
           /\ Wrote(log[i]) =>
                log[i].path \in {AbsPath(opt.path), parent(AbsPath(opt.path))}
      /\ /\ pc = "done" /\ result = "Ok" /\ quiet
         /\ Contains(diagnosis.missing_projects, AbsPath(opt.path))
         => IF HasGit(AbsPath(opt.path))
            THEN /\ \E i \in 1..Len(log) :
                        log[i] = Ev("clone", AbsPath(opt.path), "Ok")
                 /\ AbsPath(opt.path) \in repos
            ELSE /\ fs[AbsPath(opt.path)] = "dir"
                 /\ AbsPath(opt.path) \in made
                 /\ AbsPath(opt.path) \notin repos
                 /\ \A i \in 1..Len(log) : log[i].op # "clone"

\* C6 witness: restore(Project w0/p0), a plain project, returned success
\* having created the absent workspace w0 first and then the empty directory.
C6_Witness ==
    /\ C6_Case /\ pc = "done" /\ result = "Ok" /\ quiet /\ runs = 1
    /\ opt.path = Root \o <<"w0", "p0">>
    /\ log = << Ev("restore_workspace", Root \o <<"w0">>, Flag(FALSE)),
                Ev("create_dir", Root \o <<"w0">>, "Ok"),
                Ev("create_dir", Root \o <<"w0", "p0">>, "Ok") >>
    /\ fs[Root \o <<"w0", "p1">>] = "absent"

\* The workspaces a restore visited, in order
Visited == LET visit(e) == e.op = "restore_workspace" IN SelectSeq(log, visit)

\* C7: restore(AllWorkspaces{f}) restores, with the flag f, the workspaces
\* its diagnosis reported missing, in that order, and no other: a workspace
\* that exists is not visited and nothing is done to its projects.
C7_OnlyMissingWorkspaces ==
    pc # "idle" /\ opt.kind = "AllWorkspaces" =>
      /\ Len(Visited) <= Len(diagnosis.missing_workspaces)
      /\ \A i \in 1..Len(Visited) :
           /\ Visited[i].path = diagnosis.missing_workspaces[i]
           /\ Visited[i].r = Flag(opt.include_projects)
      /\ pc = "done" /\ result = "Ok" =>
           Len(Visited) = Len(diagnosis.missing_workspaces)
      /\ \A w \in DeclaredWs :
           ~Contains(diagnosis.missing_workspaces, w) =>
             /\ ~Touched(w)
             /\ \A p \in ProjectsOf(w) :
                  ~Touched(p) /\ (quiet => fs[p] = start.fs[p])

\* C7 witness: restore(AllWorkspaces{true}) returned success having restored
\* the missing w1, while w0, which existed, still misses both its projects.
C7_Witness ==
    /\ pc = "done" /\ result = "Ok" /\ opt.kind = "AllWorkspaces"
    /\ opt.include_projects /\ quiet
    /\ start.fs[Root \o <<"w0">>] = "dir"
    /\ start.fs[Root \o <<"w1">>] = "absent"
    /\ fs[Root \o <<"w1">>] = "dir"
    /\ fs[Root \o <<"w0", "p0">>] = "absent"
    /\ fs[Root \o <<"w0", "p1">>] = "absent"

\* C8: restore never returns an error caused by a directory that already
\* exists when its creation is attempted.
C8_AlreadyExistsIsSuccess == result # "AlreadyExists"

\* A project is materialised: its clone is complete, or, for a plain project,
\* its path exists
Materialised(p) == IF HasGit(p) THEN p \in repos ELSE exists(fs, p)

\* The projects a restore is asked to materialise, given the filesystem f0 it
\* first started on
Targeted(o, f0) ==
    CASE o.kind = "Project" -> {AbsPath(o.path)} \cap DeclaredProjs
      [] o.kind = "Workspace" ->
            IF o.include_projects THEN ProjectsOf(AbsPath(o.path)) ELSE {}
      [] o.kind = "AllWorkspaces" ->
            IF o.include_projects
            THEN UNION {ProjectsOf(w) : w \in {w \in DeclaredWs : f0[w] = "absent"}}
            ELSE {}

\* C9: when a restore failed or was interrupted and the same restore, invoked
\* again, returns success with nothing failing, every targeted project that
\* was not there before restore ran is materialised.
C9_RecoveryByReinvocation ==
    /\ pc = "done" /\ result = "Ok" /\ quiet
    /\ prev # Nil /\ prev.result # "Ok"
    => \A p \in Targeted(opt, prev.start.fs) :
         p \in made \/ ~exists(fs, p) => Materialised(p)

\* An entry of the log that failed
FailedAt(i) ==
    log[i].r \in {"LookupFailed", "NotFound", "NotADirectory", "AlreadyExists",
                  "CloneFailed"}

\* C10: the first failing step ends restore with that error and nothing is
\* attempted after it; whatever restore created or cloned stays in place.
C10_FailFastNoRollback ==
    /\ \A i \in 1..Len(log) :
         FailedAt(i) => i = Len(log) /\ pc = "done" /\ result = log[i].r
    /\ result \notin {"none", "Ok"} => pc = "done"
    /\ \A p \in made : exists(fs, p)
    /\ \A i \in 1..Len(log) : log[i].op = "clone" /\ log[i].r = "Ok" => log[i].path \in repos

\* C10 witness: restore(Workspace w0, true) created w0, failed on the clone
\* of p1, and returned at once: w0 stays, p0 (next in the batch) is untouched.
C10_Witness ==
    /\ pc = "done" /\ result = "CloneFailed"
    /\ opt.kind = "Workspace" /\ opt.include_projects
    /\ log[2] = Ev("create_dir", Root \o <<"w0">>, "Ok")
    /\ projQueue = <<Root \o <<"w0", "p1">>, Root \o <<"w0", "p0">>>>
    /\ fs[Root \o <<"w0">>] = "dir"
    /\ fs[Root \o <<"w0", "p0">>] = "absent"
    /\ ~Touched(Root \o <<"w0", "p0">>)

\* A doctor call: the only step that leaves the program idle
DoctorStep == pc = "idle" /\ pc' = "idle"

\* C11: a doctor call changes neither the filesystem nor the config tree, and
\* a doctor call that follows a doctor call over the unchanged filesystem
\* returns the same missing sets; no step of restore changes the config tree.
C11_DoctorReadOnly ==
    [][ /\ DoctorStep =>
             /\ fs' = fs /\ repos' = repos
             /\ diagnosis # Nil => diagnosis' = diagnosis
        /\ config' = config /\ yaml' = yaml ]_vars

\* C11 witness: doctor ran where nothing but the root exists, and reported
\* both workspaces and both projects; the filesystem is as it was.
C11_Witness ==
    /\ pc = "idle" /\ diagnosis # Nil
    /\ \A p \in DOMAIN fs : p # Root => fs[p] = "absent"
    /\ fs[Root] = "dir"
    /\ Len(diagnosis.missing_workspaces) = 2
    /\ Len(diagnosis.missing_projects) = 2

\* ------------------------------------------------------ claims on the lookups

\* The declared paths a lookup of this kind can name, nested nodes included
DeclaredOfKind(kind) ==
    IF kind = "workspace" THEN {DeclaredPath(c) : c \in DOMAIN yaml.ws}
    ELSE {DeclaredPath(c) : c \in DOMAIN yaml.projs}

C13_LookupReversesCollect ==
    found # Nil =>
      /\ found.kind = "workspace" =>
           \A i \in 1..Len(collect_workspace_paths(config)) :
              collect_workspace_paths(config)[i] = found.path =>
                found.ok /\ found.ws = Iter(DOMAIN config.workspaces)[i]
      /\ found.kind = "project"
         /\ Contains(collect_project_paths(config), found.path) =>
           /\ found.ok
           /\ \A n \in DOMAIN config.workspaces :
                \A m \in DOMAIN config.workspaces[n].projects :
                   found.path = config.root \o <<n, m>> =>
                     found.ws = n /\ found.proj = m

\* C13 witness: the collected path of p0 in w1, where w0 has a p0 too, was
\* looked up and resolved to w1's project.
C13_Witness ==
    /\ found # Nil /\ found.kind = "project"
    /\ found.path = Root \o <<"w1", "p0">>
    /\ Contains(collect_project_paths(config), found.path)
    /\ <<"w0", "p0">> \in DOMAIN yaml.projs
    /\ found.ok /\ found.ws = "w1" /\ found.proj = "p0"

\* ------------------------------------------- claims on relative restore paths

\* The option names its workspace or project by a path relative to the root
Relative(o) == o.kind \in {"Workspace", "Project"} /\ ~is_absolute(o.path)

\* The same option, given by the absolute path root/<relative path>
Absolute(o) == [o EXCEPT !.path = config.root \o o.path]

\* A step of the running restore, taken as the code takes it on the option o
RunStep(o) ==
    \/ AllWorkspacesNextOf(o)
    \/ ProjectParentOf(o)
    \/ CreateWorkspaceDirOf(o)
    \/ RestoreProjectOf(o)
    \/ CreateProjectDirOf(o)
    \/ GitCloneOf(o)
    \/ GitCreateDir
    \/ GitFetchOf(o)

\* C14: every step of a restore given a path relative to the config root is
\* the step the same restore takes when given the absolute path root/<path>:
\* the same lookup, the same directories and clones, the same result.
C14_RelativeLikeAbsolute ==
    [][ /\ runs' = runs + 1 /\ Relative(opt') => RestoreCall(opt', Absolute(opt'))
        /\ Running /\ envSteps' = envSteps /\ Relative(opt) => RunStep(Absolute(opt))
      ]_vars

\* C14 witness: restore(Project w0/p1), given relative to the root, returned
\* success having created /r/w0 and cloned /r/w0/p1.
C14_Witness ==
    /\ pc = "done" /\ result = "Ok" /\ quiet /\ runs = 1
    /\ opt.kind = "Project" /\ opt.path = <<"w0", "p1">>
    /\ log = << Ev("restore_workspace", Root \o <<"w0">>, Flag(FALSE)),
                Ev("create_dir", Root \o <<"w0">>, "Ok"),
                Ev("clone", Root \o <<"w0", "p1">>, "Ok") >>
    /\ Root \o <<"w0", "p1">> \in repos

\* ------------------------------------- claims on the credential negotiation

\* The negotiation has returned
Negotiated == creds # Nil /\ creds.pc = "done"

\* Every candidate was attempted and refused: the retry loop ran out
Exhausted ==
    /\ Negotiated /\ creds.outcomes # <<>> /\ creds.candidates = <<>>
    /\ creds.attempts = 2 /\ creds.res # "Ok"

\* The errors by which the callbacks report that they have nothing to offer
AuthExhausted ==
    {"no authentication methods succeeded", "no authentication available"}

\* C15: an error of the transport itself ends the negotiation and is what the
\* negotiation returns; a negotiation that ran out of candidate usernames
\* returns an error of exhaustion, which is not an error of the transport.
C15_TransportErrorsForwarded ==
    creds # Nil =>
      /\ creds.first_res = "network error" =>
           creds.pc = "done" /\ creds.res = "network error" /\ creds.outcomes = <<>>
      /\ \A k \in 1..Len(creds.outcomes) :
           creds.outcomes[k].res = "network error" =>
             k = Len(creds.outcomes) /\ creds.pc = "done"
             /\ creds.res = "network error"
      /\ Exhausted /\ creds.res # "network error" => creds.res \in AuthExhausted

\* The domain of a host
HostDomain(host) ==
    CASE host = "GitHub" -> "github.com" [] host = "GitLab" -> "gitlab.com"

\* C16: the URL of every attempt is https://<domain>/<repo>.git for HTTPS,
\* whatever the username, and <username>@<domain>:<repo>.git for SSH, the
\* username being git when none is given.
C16_DerivedUrl ==
    creds # Nil =>
      IF git.protocol = "HTTPS"
      THEN creds.url = <<"https://", HostDomain(git.host), "/", git.repo, ".git">>
      ELSE creds.url = << IF creds.u = None THEN "git" ELSE creds.u, "@",
                          HostDomain(git.host), ":", git.repo, ".git" >>

\* C16 witness: the attempt of the second candidate over SSH on GitLab
C16_Witness ==
    /\ creds # Nil /\ creds.pc = "retry" /\ creds.u = "Will Czifro"
    /\ git.protocol = "SSH" /\ git.host = "GitLab"
    /\ creds.url = <<"Will Czifro", "@", "gitlab.com", ":", "o/n", ".git">>

\* A credential callback of the first attempt is answered in this step
FirstCallbackStep ==
    creds # Nil /\ creds.pc = "first" /\ creds'.calls = creds.calls + 1

\* C17: a callback of the first attempt is answered by the first that applies:
\* a bare username is accepted -> error, the retry recorded, no username
\* supplied; an SSH key is accepted and the agent was not asked yet -> the
\* agent key; user/password is accepted and the helper has not failed -> the
\* credential helper; default is accepted -> default credentials; else the
\* error 'no authentication methods succeeded'.  So the agent is asked at most
\* once in the attempt, and the helper never again once it failed.
C17_FirstAttemptPriority ==
    [][ FirstCallbackStep =>
          /\ IF "USERNAME" \in creds'.allowed
             THEN /\ creds'.ret = Answer(FALSE, "gonna try usernames later", "none")
                  /\ creds'.ssh_username_requested
             ELSE IF "SSH_KEY" \in creds'.allowed /\ creds.key_offers = 0
             THEN creds'.ret.src = "agent"
             ELSE IF "USER_PASS_PLAINTEXT" \in creds'.allowed /\ ~creds.helper_failed
             THEN creds'.ret.src = "helper"
             ELSE IF "DEFAULT" \in creds'.allowed
             THEN creds'.ret = Answer(TRUE, "Default", "default")
             ELSE creds'.ret =
                    Answer(FALSE, "no authentication methods succeeded", "none")
          /\ creds'.key_offers <= 1
          /\ ~creds'.helper_again ]_vars

\* C17 witness: in one first attempt the agent key was offered and refused,
\* the helper was asked and failed, and the third callback, which accepts
\* SSH keys, user/password and default, got the default credentials.
C17_Witness ==
    /\ creds # Nil /\ creds.pc = "first" /\ creds.calls = 3
    /\ creds.key_offers = 1 /\ creds.helper_failed
    /\ creds.allowed = {"SSH_KEY", "USER_PASS_PLAINTEXT", "DEFAULT"}
    /\ creds.ret = Answer(TRUE, "Default", "default")

\* C18: the retry loop is entered exactly when the transport asked for a bare
\* username during the first attempt; a transport that only ever accepts SSH
\* keys gets one attempt, whose result is returned, and no candidate username.
C18_RetryIffUsernameRequested ==
    creds # Nil =>
      /\ creds.n_attempts > 1 => creds.asked_username
      /\ creds.pc # "first" /\ creds.asked_username =>
           creds.n_attempts > 1 /\ (creds.pc = "retry" \/ creds.outcomes # <<>>)
      /\ Negotiated /\ creds.only_ssh_key =>
           /\ creds.n_attempts = 1 /\ creds.outcomes = <<>> /\ creds.u = None
           /\ creds.res = creds.first_res
           /\ creds.calls > 0 => creds.key_offers = 1

\* C18 witness: the transport accepted only SSH keys, was offered the agent
\* key at its one callback, and the one attempt succeeded.
C18_Witness ==
    /\ Negotiated /\ creds.only_ssh_key /\ creds.calls = 1
    /\ creds.ret = Answer(TRUE, "SshKey", "agent")
    /\ creds.res = "Ok" /\ creds.n_attempts = 1 /\ creds.outcomes = <<>>

\* C19: when the attempt of a candidate succeeds on its second inner callback
\* the negotiation returns that success and attempts no later candidate.
C19_StopsAtFirstSuccess ==
    creds # Nil =>
      \A k \in 1..Len(creds.outcomes) :
         creds.outcomes[k].res = "Ok" /\ creds.outcomes[k].attempts = 2 =>
           k = Len(creds.outcomes) /\ creds.pc = "done" /\ creds.res = "Ok"

\* The candidates attempted so far, in order
Tried == [k \in 1..Len(creds.outcomes) |-> creds.outcomes[k].u]
         \o (IF creds.pc = "retry" THEN <<creds.u>> ELSE <<>>)

\* C20: the candidates are attempted in the order git, Will Czifro, the
\* environment's user, each at most once; the loop goes on to the next
\* candidate after one that failed, until one succeeds or none is left, and
\* returns the success of the first candidate that succeeds.
C20_CandidatesInOrderUntilAccepted ==
    creds # Nil /\ creds.pc # "first" =>
      /\ NoDuplicates(Tried)
      /\ \A k \in 1..Len(Tried) :
           k <= 2 => Tried[k] = <<"git", "Will Czifro">>[k]
      /\ Negotiated /\ creds.outcomes # <<>>
         /\ creds.res \notin {"Ok", "network error"} => creds.candidates = <<>>
      /\ \A k \in 1..Len(creds.outcomes) :
           creds.outcomes[k].res = "Ok" =>
             k = Len(creds.outcomes) /\ Negotiated /\ creds.res = "Ok"

\* ------------------------------------------- claims on undeclared projects

\* restore(Project p): the parent of p is a declared workspace, p is not a
\* declared project
C27_Case ==
    /\ opt # Nil /\ opt.kind = "Project"
    /\ parent(AbsPath(opt.path)) \in DeclaredWs
    /\ AbsPath(opt.path) \notin DeclaredProjs

\* A step of restore_project or of the clone it starts
InProject ==
    pc \in {"restore_project", "create_project_dir", "git_clone",
            "git_create_dir", "git_fetch"}

\* C27 as stated: restore(Project p) of an undeclared project p in a declared
\* workspace returns success.
C27_AlwaysSuccess ==
    C27_Case /\ pc = "done" /\ result # "Interrupted" => result = "Ok"

\* C27: restore(Project p) of an undeclared project p in a declared workspace
\* never returns a lookup error and never reaches restore_project (so never
\* lookup_project); it never creates p; it returns success unless the
\* creation of the missing workspace directory failed, and then returns that
\* filesystem error; on success the workspace directory exists, created by
\* restore if it was missing.
C27_UndeclaredProjectSkipped ==
    C27_Case =>
      /\ ~InProject
      /\ result # "LookupFailed"
      /\ AbsPath(opt.path) \notin made /\ ~Touched(AbsPath(opt.path))
      /\ pc = "done" /\ result \notin {"Ok", "Interrupted"} =>
           log[Len(log)] = Ev("create_dir", parent(AbsPath(opt.path)), result)
      /\ pc = "done" /\ result = "Ok" =>
           /\ exists(fs, parent(AbsPath(opt.path)))
           /\ quiet /\ ~exists(start.fs, parent(AbsPath(opt.path))) =>
                parent(AbsPath(opt.path)) \in made

\* C27 witness: restore(Project /r/w0/px) found w0 missing, created it and
\* returned success.
C27_Witness ==
    /\ C27_Case /\ pc = "done" /\ result = "Ok" /\ quiet
    /\ ~exists(start.fs, Root \o <<"w0">>)
    /\ log[Len(log)] = Ev("create_dir", Root \o <<"w0">>, "Ok")
    /\ fs[Root \o <<"w0">>] = "dir"

\* ----------------------------------------------- claims on a missing root

\* The restore targets a declared workspace, a project in one, or all
C28_Case ==
    /\ opt # Nil
    /\ CASE opt.kind = "Workspace" -> AbsPath(opt.path) \in DeclaredWs
         [] opt.kind = "Project" -> parent(AbsPath(opt.path)) \in DeclaredWs
         [] opt.kind = "AllWorkspaces" -> TRUE

\* C28: workspace directories are created non-recursively: a restore that
\* returns while the root directory does not exist returned the filesystem
\* error of the workspace's create_dir and created nothing; restore never
\* creates the root or any path other than a declared workspace or project.
C28_NonRecursiveCreate ==
    /\ made \subseteq DeclaredWs \cup DeclaredProjs
    /\ C28_Case /\ pc = "done" /\ result # "Interrupted" /\ ~exists(fs, Root) =>
         /\ result = "NotFound"
         /\ made = {}
         /\ \A p \in DOMAIN fs : ~exists(fs, p)
         /\ log[Len(log)].op = "create_dir" /\ log[Len(log)].path \in DeclaredWs

\* C28 witness: restore(AllWorkspaces) with no root directory failed on the
\* first workspace it tried to create.
C28_Witness ==
    /\ opt # Nil /\ opt.kind = "AllWorkspaces" /\ pc = "done"
    /\ ~exists(fs, Root) /\ result = "NotFound" /\ made = {}
    /\ Len(wsQueue) = 1

\* ------------------------------------- claims on the number of attempts

\* C29: a negotiation performs at most 4 attempts, the first one and one per
\* candidate username (2 or 3 of them), whatever the transport answers: each
\* attempt started takes one candidate away; what the negotiation returns is
\* the result of the last attempt it performed.
C29_BoundedAttempts ==
    creds # Nil =>
      /\ creds.n_attempts <= 4
      /\ creds.n_attempts =
           1 + Len(creds.outcomes) + (IF creds.pc = "retry" THEN 1 ELSE 0)
      /\ creds.pc = "retry" => creds.n_attempts + Len(creds.candidates) \in {3, 4}
      /\ Negotiated =>
           creds.res = IF creds.outcomes = <<>> THEN creds.first_res
                       ELSE creds.outcomes[Len(creds.outcomes)].res

\* C29 witness: the first attempt and the attempts of three candidates were
\* performed, and the negotiation returned the result of the last one.
C29_Witness ==
    /\ Negotiated /\ creds.n_attempts = 4 /\ Len(creds.outcomes) = 3
    /\ creds.first_res # "Ok" /\ creds.res = "Ok"
    /\ creds.outcomes[3] = [u |-> "me", res |-> "Ok", attempts |-> 2]

\* ------------------------------------------- claims on the progress reporter

\* The line the reporter draws for the sample it was last given
TickedLine ==
    print_line(progress.format,
               Format_progress(progress.format, ticked.cur, ticked.max).some,
               ticked.msg)

\* The last sample pushed was a completion sample
Completion == ticked # Nil /\ ticked.max > 0 /\ ticked.cur = ticked.max

\* C21: no line is written earlier than 500 ms after the reporter was
\* created (time 0), two consecutive writes are at least 100 ms apart, a
\* sample pushed less than 500 ms after the creation or less than 100 ms
\* after the last write is dropped, and a dropped sample leaves the reporter
\* as it was: what is written is the line of the sample just pushed.
C21_Throttle ==
    /\ [](/\ \A i \in 1..Len(shown) : shown[i] >= 500
          /\ \A i \in 1..(Len(shown) - 1) : shown[i + 1] - shown[i] >= 100
          /\ ticked # Nil /\ ticked.at < 500 => ticked.outcome = "throttled"
          /\ ticked # Nil /\ shown # <<>> /\ shown[Len(shown)] < ticked.at
             /\ ticked.at - shown[Len(shown)] < 100 => ticked.outcome = "throttled"
          /\ ticked # Nil /\ ticked.outcome = "written" =>
               /\ shown[Len(shown)] = ticked.at
               /\ progress.last_line = Some(TickedLine))
    /\ [][ticked' # ticked /\ ticked'.outcome = "throttled" =>
            progress' = progress /\ shown' = shown]_vars

\* C21 witness: a line was written at 500 ms, the sample pushed 50 ms later
\* was dropped, and the one pushed 100 ms after that was written.
C21_Witness ==
    /\ ticks = 3 /\ shown = <<500, 650>>
    /\ ticked.at = 650 /\ ticked.outcome = "written"

\* C22 as stated: a completion sample marks the reporter done whatever the
\* time at which it arrives, and nothing of the reporter changes after that.
C22_CompletionAlwaysMarksDone ==
    /\ [](Completion => progress.done)
    /\ [][progress.done => progress' = progress]_vars

\* C22: a completion sample that passes the throttle marks the reporter done,
\* one that arrives inside the throttle window is dropped and leaves it as it
\* was; once the reporter is done it stays done and every later sample is
\* ignored: nothing is written, and the last line, the terminal state and
\* the format stay as they are (the throttle alone records the time).
C22_DoneOnceCompletionPasses ==
    /\ [](/\ Completion /\ ticked.outcome # "throttled" => progress.done
          /\ progress.done /\ ticked.outcome \notin {"throttled", "ignored"} =>
               Completion /\ ticked.outcome = "written")
    /\ [][progress.done =>
            /\ progress'.done
            /\ progress'.last_line = progress.last_line
            /\ progress'.shell = progress.shell
            /\ progress'.format = progress.format
            /\ shown' = shown
            /\ ticked' # ticked => ticked'.outcome \in {"throttled", "ignored"}]_vars

\* C22 witness: the reporter is done and a later sample, not a completion
\* one, passed the throttle and was ignored.
C22_Witness ==
    /\ progress.done /\ ticked # Nil /\ ticked.outcome = "ignored"
    /\ ticked.cur < ticked.max
    /\ Len(shown) = 1 /\ shown[1] < ticked.at

\* The parts of a bar "[inner]stats"
BarClose(s) == CHOOSE k \in 1..Len(s) : s[k] = "]"
BarInner(s) == SubSeq(s, 2, BarClose(s) - 1)
BarStats(s) == SubSeq(s, BarClose(s) + 1, Len(s))
Filled(s) == Cardinality({i \in 1..Len(BarInner(s)) : BarInner(s)[i] \in {"=", ">"}})

\* The number a percentage text shows, in hundredths
DigitValue(ch) == CHOOSE d \in 0..9 : DigitChar(d) = ch
RECURSIVE ParseHundredths(_, _)
ParseHundredths(text, acc) ==
    IF text = <<>> THEN acc
    ELSE IF \E d \in 0..9 : DigitChar(d) = Head(text)
    THEN ParseHundredths(Tail(text), 10 * acc + DigitValue(Head(text)))
    ELSE ParseHundredths(Tail(text), acc)

C24_FillMonotone ==
    bar # Nil =>
      /\ \A c \in 0..bar.max :
           c <= bar.cur =>
             Filled(Format_progress(progress.format, c, bar.max).some)
               <= Filled(bar.out.some)
      /\ Filled(bar.out.some) = Len(BarInner(bar.out.some))
           <=> bar.max > 0 /\ bar.cur = bar.max

\* C24 witness: 29 of 30 fills 24 of the 25 columns.
C24_Witness ==
    /\ bar # Nil /\ bar.cur = 29 /\ bar.max = 30
    /\ Filled(bar.out.some) = 24 /\ Len(BarInner(bar.out.some)) = 25

\* The last tick reached the test of State::print
Printed == ticked # Nil /\ ticked.outcome \in {"skipped", "written"}

\* C25 as stated: a render is skipped exactly when the line equals the last
\* one drawn and the terminal is clear.
C25_SkippedWhenClear ==
    Printed => (ticked.outcome = "skipped" <=> ticked.same /\ ticked.cleared)

\* C25: a render is skipped exactly when the line equals the last one drawn
\* and the terminal has not been cleared since (it still needs a clear); in
\* every other case the line is written, recorded as the last line drawn,
\* and the terminal is marked as needing a clear.
C25_SkippedWhenStillDrawn ==
    Printed =>
      /\ ticked.outcome = "skipped" <=> ticked.same /\ ~ticked.cleared
      /\ ticked.outcome = "written" =>
           /\ progress.last_line = Some(TickedLine)
           /\ progress.shell.needs_clear
           /\ shown[Len(shown)] = ticked.at
      /\ ticked.outcome = "skipped" =>
           /\ progress.last_line = Some(TickedLine)
           /\ shown[Len(shown)] < ticked.at

\* C25 witness: the same line as the one on the terminal was computed 100 ms
\* after it was drawn, and was not written again.
C25_Witness ==
    /\ Printed /\ ticked.outcome = "skipped" /\ ticked.same /\ ~ticked.cleared
    /\ shown = <<500>> /\ ticked.at = 600

\* The k-th most recent record given to the counter; the initial record
\* stands for those before it
Recent(k) == added[IF k <= Len(added) THEN Len(added) - k + 1 ELSE 1]

\* C26: the ring holds the 10 most recent records, the initial record
\* standing in until 10 were added; two records are added more than 300 ms
\* apart; the rate is (newest.count - oldest.count) / (newest.time -
\* oldest.time), and 0 when that duration is zero.
C26_RateOverRing ==
    counter # Nil =>
      /\ DOMAIN counter.slots = 0..9
      /\ \A k \in 1..10 : counter.slots[(counter.index + 10 - k) % 10] = Recent(k)
      /\ \A i \in 1..(Len(added) - 1) : added[i + 1][2] - added[i][2] > 300
      /\ LET r == MetricsCounter_rate(counter)
             dc == Recent(1)[1] - Recent(10)[1]
             dt == Recent(1)[2] - Recent(10)[2]
         IN /\ r.kind = "finite"
            /\ dt = 0 => r.num = 0
            /\ dt > 0 => r.num * dt = dc * r.den

\* C26 witness: 11 records were added after the initial one, so the ring has
\* wrapped: the oldest record it holds is the second one added.
C26_Witness ==
    /\ counter # Nil /\ Len(added) = 12 /\ counter.index = 1
    /\ counter.slots[1] = added[3]
    /\ MetricsCounter_rate(counter).num > 0

====
